---- MODULE Spec2Model ----
(***************************************************************************)
(* AgriSense: the synthetic sensor-data simulators and the rule-based      *)
(* agronomic scoring engine.                                               *)
(*                                                                         *)
(* Numbers.  Every physical quantity is an integer number of thousandths   *)
(* (pH 6.5 is 6500, 80 mg/kg is 80000).  U(x) is x units, D(x) is x        *)
(* tenths.  Points of the soil health rubric are kept in 1/120000 of a     *)
(* point, the least scale in which |v - ideal| / 8, / 5 and / 6 are exact  *)
(* for values in thousandths.                                              *)
(*                                                                         *)
(* A reading is a dict, a function from the keys it has to floats; a float  *)
(* is [nan, val], nan telling pandas' missing marker NaN from a number.    *)
(***************************************************************************)
EXTENDS Integers, Sequences, FiniteSets, TLC

VARIABLES
    DEFICIENCY_THRESHOLDS,      \* nutrient_deficiency.py module table
    AMENDMENT_RECOMMENDATIONS,  \* nutrient_deficiency.py module table
    IRRIGATION_LIMITS,          \* water_quality.py module table
    call,                       \* the call of the behaviour: [op, arg, returned, ret]
    pc,                         \* the position of a generator call
    n_records,                  \* its argument
    timestamps,                 \* its local list of timestamps (hours since start_date)
    contexts,                   \* its local zones (soil) or sources (water)
    records,                    \* its local list of record dicts
    df,                         \* the table it returns
    rng,                        \* np.random's global generator: the seed it was
                                \* given and the draws requested of it since
    stream,                     \* the values the generator gives, as far as drawn
    seedings,                   \* the places that have called np.random.seed
    runs                        \* the generator and builder calls that have returned

vars == <<DEFICIENCY_THRESHOLDS, AMENDMENT_RECOMMENDATIONS, IRRIGATION_LIMITS,
          call, pc, n_records, timestamps, contexts, records, df,
          rng, stream, seedings, runs>>

tables == <<DEFICIENCY_THRESHOLDS, AMENDMENT_RECOMMENDATIONS, IRRIGATION_LIMITS>>

locals == <<pc, n_records, timestamps, contexts, records, df>>

random == <<rng, stream, seedings>>

genvars == <<locals, random, runs>>

-----------------------------------------------------------------------------
(* Arithmetic *)

U(x) == x * 1000

D(x) == x * 100

Abs(x) == IF x < 0 THEN -x ELSE x

Max2(a, b) == IF b > a THEN b ELSE a

Min2(a, b) == IF b < a THEN b ELSE a

\* np.clip(x, lo, hi) = minimum(maximum(x, lo), hi)
Clip_lower_only(x, lo, hi) == Max2(x, lo)

Clip(x, lo, hi) == Min2(Max2(x, lo), hi)

\* round() to the nearest multiple of q, a tie going to the even multiple
RoundTo(x, q) ==
    LET lo == x \div q
        r  == x - lo * q
    IN  IF 2 * r < q THEN lo * q
        ELSE IF 2 * r > q THEN (lo + 1) * q
        ELSE IF lo % 2 = 0 THEN lo * q ELSE (lo + 1) * q

-----------------------------------------------------------------------------
(* Readings: a dict from field names to floats; a float is [nan, val] *)

Num(v) == [nan |-> FALSE, val |-> v]

NaN == [nan |-> TRUE, val |-> 0]

SoilFields == {"nitrogen_mg_kg", "phosphorus_mg_kg", "potassium_mg_kg", "ph",
               "organic_matter_pct", "moisture_pct", "ec_mscm"}

\* x < a, x > a, a <= x <= b on floats: every comparison with NaN is False
Lt(x, a) == ~x.nan /\ x.val < a

Gt(x, a) == ~x.nan /\ x.val > a

Between(x, a, b) == ~x.nan /\ a <= x.val /\ x.val <= b

\* dict.get(key, default)
Get(reading, key, default) == IF key \in DOMAIN reading THEN reading[key] ELSE default

-----------------------------------------------------------------------------
(* preprocessing.py: generate_soil_health_score, categorize_health_score *)

\* max(0, 10 - abs(v - ideal) / sensitivity) in 1/120000 point, per being
\* 120 / sensitivity; Python's max(0, NaN) is 0
NutrientScore(x, ideal, per) ==
    IF x.nan THEN 0 ELSE Max2(0, 10 * 120000 - Abs(x.val - ideal) * per)

NpkScore(row) ==
    NutrientScore(row["nitrogen_mg_kg"], U(80), 15)
    + NutrientScore(row["phosphorus_mg_kg"], U(45), 24)
    + NutrientScore(row["potassium_mg_kg"], U(60), 20)

\* the bounds of the tiers open: < where the code has <=
PhScore_open(row) ==
    IF Gt(row["ph"], D(60)) /\ Lt(row["ph"], D(75)) THEN 20
    ELSE IF Gt(row["ph"], D(55)) /\ Lt(row["ph"], D(80)) THEN 12
    ELSE IF Gt(row["ph"], D(50)) /\ Lt(row["ph"], D(85)) THEN 5
    ELSE 0

PhScore(row) ==
    IF Between(row["ph"], D(60), D(75)) THEN 20
    ELSE IF Between(row["ph"], D(55), D(80)) THEN 12
    ELSE IF Between(row["ph"], D(50), D(85)) THEN 5
    ELSE 0

OrganicMatterScore(row) ==
    IF Between(row["organic_matter_pct"], D(30), D(60)) THEN 20
    ELSE IF Between(row["organic_matter_pct"], D(20), D(80)) THEN 12
    ELSE 5

MoistureScore(row) ==
    IF Between(row["moisture_pct"], U(20), U(45)) THEN 15
    ELSE IF Between(row["moisture_pct"], U(10), U(60)) THEN 8
    ELSE 3

\* the last tier scoring nothing
EcScore_no_floor(row) ==
    IF Between(row["ec_mscm"], D(5), D(25)) THEN 15
    ELSE IF Between(row["ec_mscm"], D(2), D(40)) THEN 8
    ELSE 0

EcScore(row) ==
    IF Between(row["ec_mscm"], D(5), D(25)) THEN 15
    ELSE IF Between(row["ec_mscm"], D(2), D(40)) THEN 8
    ELSE 2

\* the sum before rounding, in 1/120000 point
RawHealthScore(row) ==
    NpkScore(row)
    + 120000 * (PhScore(row) + OrganicMatterScore(row) + MoistureScore(row) + EcScore(row))


\* the sum with neither guard: no max(0, ...) on a nutrient's score and no
\* clip of the total
generate_soil_health_score_unguarded(row) ==
    IF ~(SoilFields \subseteq DOMAIN row)
    THEN [raised |-> "KeyError"]
    ELSE LET unfloored(x, ideal, per) ==
                 IF x.nan THEN 0 ELSE 10 * 120000 - Abs(x.val - ideal) * per
             raw == unfloored(row["nitrogen_mg_kg"], U(80), 15)
                    + unfloored(row["phosphorus_mg_kg"], U(45), 24)
                    + unfloored(row["potassium_mg_kg"], U(60), 20)
                    + 120000 * (PhScore(row) + OrganicMatterScore(row)
                                + MoistureScore(row) + EcScore(row))
         IN  [raised |-> "no", value |-> (RoundTo(raw, 12000) \div 12000) * 100]

\* np.clip(round(score, 1), 0, 100), in thousandths of a point; row[key] of a
\* key the reading lacks raises KeyError
generate_soil_health_score(row) ==
    IF ~(SoilFields \subseteq DOMAIN row)
    THEN [raised |-> "KeyError"]
    ELSE [raised |-> "no",
          value |-> Clip((RoundTo(RawHealthScore(row), 12000) \div 12000) * 100, U(0), U(100))]


\* the boundaries open: > where the code has >=
categorize_health_score_open(score) ==
    IF ~score.nan /\ score.val > U(80) THEN "Excellent"
    ELSE IF ~score.nan /\ score.val > U(60) THEN "Good"
    ELSE IF ~score.nan /\ score.val > U(40) THEN "Fair"
    ELSE "Poor"

categorize_health_score(score) ==
    IF ~score.nan /\ score.val >= U(80) THEN "Excellent"
    ELSE IF ~score.nan /\ score.val >= U(60) THEN "Good"
    ELSE IF ~score.nan /\ score.val >= U(40) THEN "Fair"
    ELSE "Poor"

-----------------------------------------------------------------------------
(* nutrient_deficiency.py: the module tables and diagnose *)

DeficiencyThresholds0 ==
    [nitrogen   |-> [low |-> U(40), moderate |-> U(60), adequate |-> U(80)],
     phosphorus |-> [low |-> U(15), moderate |-> U(25), adequate |-> U(40)],
     potassium  |-> [low |-> U(25), moderate |-> U(35), adequate |-> U(50)],
     ph_low     |-> D(55),
     ph_high    |-> D(80)]

Amendment(a, d, t) == [amendment |-> a, dosage |-> d, timing |-> t]

AmendmentRecommendations0 ==
    [N_deficient |-> <<
        Amendment("Urea (46-0-0)", "60-100 kg/ha", "Split application: 50% at sowing, 50% at 30 days"),
        Amendment("Ammonium Sulfate (21-0-0-24S)", "120-180 kg/ha", "Pre-sowing or side-dress"),
        Amendment("Neem-coated Urea", "60-100 kg/ha", "Slow release, apply at sowing")>>,
     P_deficient |-> <<
        Amendment("DAP (18-46-0)", "50-80 kg/ha", "Apply at sowing as basal dose"),
        Amendment("SSP (0-16-0)", "150-250 kg/ha", "Basal application"),
        Amendment("Rock Phosphate", "200-400 kg/ha", "Pre-sowing, works best in acidic soils")>>,
     K_deficient |-> <<
        Amendment("MOP - Muriate of Potash (0-0-60)", "40-80 kg/ha", "Basal or split application"),
        Amendment("SOP - Sulfate of Potash (0-0-50)", "50-100 kg/ha", "For chloride-sensitive crops"),
        Amendment("Wood Ash", "500-1000 kg/ha", "Pre-sowing, also raises pH")>>,
     pH_low |-> <<
        Amendment("Agricultural Lime (CaCO3)", "2-4 tons/ha", "Apply 2-3 months before sowing"),
        Amendment("Dolomite Lime", "1.5-3 tons/ha", "Also supplies Mg, apply before plowing")>>,
     pH_high |-> <<
        Amendment("Gypsum (CaSO4)", "2-5 tons/ha", "Apply before plowing season"),
        Amendment("Sulfur (Eleite)", "200-500 kg/ha", "Apply and incorporate into soil"),
        Amendment("Organic Matter / Compost", "10-20 tons/ha", "Regular annual application")>>]


\* the low threshold closed: <= where the code has <
Severity_closed(x, limits) == IF ~x.nan /\ x.val <= limits.low THEN "Critical" ELSE "Low"

\* "Critical" if v < low else "Low"
Severity(x, limits) == IF Lt(x, limits.low) THEN "Critical" ELSE "Low"

\* the recommendations of a finding put before those of the earlier ones
CheckNutrient_prepend(result, x, limits, nutrient, key) ==
    IF Lt(x, limits.moderate)
    THEN [result EXCEPT
            !.deficiencies = Append(@, [nutrient |-> nutrient, value |-> x,
                                        severity |-> Severity(x, limits)]),
            !.recommendations = AMENDMENT_RECOMMENDATIONS[key] \o @]
    ELSE result

\* one "if v < moderate:" block: the result with the finding and its
\* recommendations appended, or the result as it was
CheckNutrient(result, x, limits, nutrient, key) ==
    IF Lt(x, limits.moderate)
    THEN [result EXCEPT
            !.deficiencies = Append(@, [nutrient |-> nutrient, value |-> x,
                                        severity |-> Severity(x, limits)]),
            !.recommendations = @ \o AMENDMENT_RECOMMENDATIONS[key]]
    ELSE result

\* the thresholds closed: <= and >= where the code has < and >
CheckPh_closed(result, ph) ==
    IF ~ph.nan /\ ph.val <= DEFICIENCY_THRESHOLDS.ph_low
    THEN [result EXCEPT
            !.deficiencies = Append(@, [nutrient |-> "pH (Acidic)", value |-> ph,
                                        severity |-> "Imbalanced"]),
            !.recommendations = @ \o AMENDMENT_RECOMMENDATIONS["pH_low"]]
    ELSE IF ~ph.nan /\ ph.val >= DEFICIENCY_THRESHOLDS.ph_high
    THEN [result EXCEPT
            !.deficiencies = Append(@, [nutrient |-> "pH (Alkaline)", value |-> ph,
                                        severity |-> "Imbalanced"]),
            !.recommendations = @ \o AMENDMENT_RECOMMENDATIONS["pH_high"]]
    ELSE result

\* the "if ph < ph_low: ... elif ph > ph_high: ..." block
CheckPh(result, ph) ==
    IF Lt(ph, DEFICIENCY_THRESHOLDS.ph_low)
    THEN [result EXCEPT
            !.deficiencies = Append(@, [nutrient |-> "pH (Acidic)", value |-> ph,
                                        severity |-> "Imbalanced"]),
            !.recommendations = @ \o AMENDMENT_RECOMMENDATIONS["pH_low"]]
    ELSE IF Gt(ph, DEFICIENCY_THRESHOLDS.ph_high)
    THEN [result EXCEPT
            !.deficiencies = Append(@, [nutrient |-> "pH (Alkaline)", value |-> ph,
                                        severity |-> "Imbalanced"]),
            !.recommendations = @ \o AMENDMENT_RECOMMENDATIONS["pH_high"]]
    ELSE result


\* only the first finding looked at
OverallSeverity_first(result) ==
    IF result.deficiencies # <<>>
    THEN IF result.deficiencies[1].severity = "Critical"
         THEN [result EXCEPT !.severity = "critical"]
         ELSE [result EXCEPT !.severity = "moderate"]
    ELSE result

\* the closing "if result['deficiencies']:" block
OverallSeverity(result) ==
    IF result.deficiencies # <<>>
    THEN IF \E i \in DOMAIN result.deficiencies : result.deficiencies[i].severity = "Critical"
         THEN [result EXCEPT !.severity = "critical"]
         ELSE [result EXCEPT !.severity = "moderate"]
    ELSE result

diagnose(sensor_reading) ==
    LET r0 == [deficiencies |-> <<>>, recommendations |-> <<>>, severity |-> "none"]
        n  == Get(sensor_reading, "nitrogen_mg_kg", Num(0))
        p  == Get(sensor_reading, "phosphorus_mg_kg", Num(0))
        k  == Get(sensor_reading, "potassium_mg_kg", Num(0))
        ph == Get(sensor_reading, "ph", Num(D(70)))
        r1 == CheckNutrient(r0, n, DEFICIENCY_THRESHOLDS.nitrogen, "Nitrogen", "N_deficient")
        r2 == CheckNutrient(r1, p, DEFICIENCY_THRESHOLDS.phosphorus, "Phosphorus", "P_deficient")
        r3 == CheckNutrient(r2, k, DEFICIENCY_THRESHOLDS.potassium, "Potassium", "K_deficient")
        r4 == CheckPh(r3, ph)
    IN  OverallSeverity(r4)

\* pd.cut(x, bins, labels): the label of the interval (bins[i], bins[i + 1]]
\* that holds x, NaN for a NaN and for a value in none of them
Cut(x, bins, labels) ==
    IF x.nan \/ ~\E i \in DOMAIN labels : bins[i] < x.val /\ x.val <= bins[i + 1]
    THEN "NaN"
    ELSE labels[CHOOSE i \in DOMAIN labels : bins[i] < x.val /\ x.val <= bins[i + 1]]

\* (df[col] < moderate).astype(int)
DeficientLabel(x, limits) == IF Lt(x, limits.moderate) THEN 1 ELSE 0

\* pd.cut(df[col], bins=[0, low, moderate, adequate, 999], labels=[...])
SeverityLabel(x, limits) ==
    Cut(x, <<0, limits.low, limits.moderate, limits.adequate, U(999)>>,
        <<"Critical", "Low", "Moderate", "Adequate">>)

\* create_deficiency_labels on one row of df: the columns it adds
create_deficiency_labels(row) ==
    LET thresholds == DEFICIENCY_THRESHOLDS
    IN  [N_deficient |-> DeficientLabel(row["nitrogen_mg_kg"], thresholds.nitrogen),
         P_deficient |-> DeficientLabel(row["phosphorus_mg_kg"], thresholds.phosphorus),
         K_deficient |-> DeficientLabel(row["potassium_mg_kg"], thresholds.potassium),
         pH_imbalanced |->
            IF Lt(row["ph"], thresholds.ph_low) \/ Gt(row["ph"], thresholds.ph_high)
            THEN 1 ELSE 0,
         N_severity |-> SeverityLabel(row["nitrogen_mg_kg"], thresholds.nitrogen),
         P_severity |-> SeverityLabel(row["phosphorus_mg_kg"], thresholds.phosphorus),
         K_severity |-> SeverityLabel(row["potassium_mg_kg"], thresholds.potassium)]

-----------------------------------------------------------------------------
(* water_quality.py: IRRIGATION_LIMITS and assess_irrigation_suitability *)

IrrigationLimits0 ==
    [ph            |-> [min |-> D(60), max |-> D(85), unit |-> ""],
     tds_ppm       |-> [max |-> U(2000), unit |-> "ppm"],
     chloride_mg_l |-> [max |-> U(350), unit |-> "mg/L"],
     sulfate_mg_l  |-> [max |-> U(400), unit |-> "mg/L"],
     hardness_mg_l |-> [max |-> U(500), unit |-> "mg/L"]]

\* the order IRRIGATION_LIMITS.items() yields: the dict's insertion order
LimitParams == <<"ph", "tds_ppm", "chloride_mg_l", "sulfate_mg_l", "hardness_mg_l">>

\* the f-strings, by their parts
Issue(param, value, limits, what, bound) ==
    [param |-> param, value |-> value, unit |-> limits.unit, what |-> what, limit |-> bound]


\* the limit itself flagged: >= where the code has >
CheckMax_closed(acc, param, value, limits) ==
    IF "max" \in DOMAIN limits /\ ~value.nan /\ value.val >= limits.max
    THEN [issues   |-> Append(acc.issues, Issue(param, value, limits, "exceeds limit", limits.max)),
          suitable |-> FALSE]
    ELSE acc

\* 'if "max" in limits and value > limits["max"]:', on the pair acc = [issues, suitable]
CheckMax(acc, param, value, limits) ==
    IF "max" \in DOMAIN limits /\ Gt(value, limits.max)
    THEN [issues   |-> Append(acc.issues, Issue(param, value, limits, "exceeds limit", limits.max)),
          suitable |-> FALSE]
    ELSE acc

\* 'if "min" in limits and value < limits["min"]:'
CheckMin(acc, param, value, limits) ==
    IF "min" \in DOMAIN limits /\ Lt(value, limits.min)
    THEN [issues   |-> Append(acc.issues, Issue(param, value, limits, "below minimum", limits.min)),
          suitable |-> FALSE]
    ELSE acc

\* one turn of the for loop; reading.get(param) is None for an absent key
CheckParam(acc, reading, param) ==
    IF param \notin DOMAIN reading THEN acc
    ELSE CheckMin(CheckMax(acc, param, reading[param], IRRIGATION_LIMITS[param]),
                  param, reading[param], IRRIGATION_LIMITS[param])

RECURSIVE CheckParams(_, _, _)
CheckParams(acc, reading, i) ==
    IF i > Len(LimitParams) THEN acc
    ELSE CheckParams(CheckParam(acc, reading, LimitParams[i]), reading, i + 1)

assess_irrigation_suitability(reading) ==
    LET acc == CheckParams([issues |-> <<>>, suitable |-> TRUE], reading, 1)
    IN  [suitable |-> acc.suitable,
         issues |-> acc.issues,
         recommendation |-> IF acc.suitable THEN "Suitable for irrigation"
                            ELSE "Treatment needed before irrigation"]

-----------------------------------------------------------------------------
(* generate_synthetic_data.py: the water quality rubric of generate_water_data *)

PhPoints(ph) ==
    IF D(65) <= ph /\ ph <= D(85) THEN 20
    ELSE IF D(60) <= ph /\ ph <= D(90) THEN 10 ELSE 0

TdsPoints(tds) == IF tds < U(500) THEN 20 ELSE IF tds < U(1000) THEN 10 ELSE 0

TurbidityPoints(turbidity) ==
    IF turbidity < U(5) THEN 20 ELSE IF turbidity < U(10) THEN 10 ELSE 0

OxygenPoints(dissolved_o2) ==
    IF dissolved_o2 > U(6) THEN 20 ELSE IF dissolved_o2 > U(4) THEN 10 ELSE 0

NitratePoints(nitrate) == IF nitrate < U(10) THEN 20 ELSE IF nitrate < U(45) THEN 10 ELSE 0

\* the nitrate left out of the sum
QualityScore_no_nitrate(ph, tds, turbidity, dissolved_o2, nitrate) ==
    PhPoints(ph) + TdsPoints(tds) + TurbidityPoints(turbidity)
    + OxygenPoints(dissolved_o2)

QualityScore(ph, tds, turbidity, dissolved_o2, nitrate) ==
    PhPoints(ph) + TdsPoints(tds) + TurbidityPoints(turbidity)
    + OxygenPoints(dissolved_o2) + NitratePoints(nitrate)


\* the grade boundaries open: > where the code has >=
QualityGrade_open(score) ==
    IF score > 80 THEN "A"
    ELSE IF score > 60 THEN "B"
    ELSE IF score > 40 THEN "C"
    ELSE IF score > 20 THEN "D"
    ELSE "F"

QualityGrade(score) ==
    IF score >= 80 THEN "A"
    ELSE IF score >= 60 THEN "B"
    ELSE IF score >= 40 THEN "C"
    ELSE IF score >= 20 THEN "D"
    ELSE "F"

-----------------------------------------------------------------------------
(* irrigation_optimizer.py: the irrigation need of create_irrigation_dataset *)

field_capacity ==
    [Loamy |-> 40, Clay |-> 50, Sandy |-> 20, Silt |-> 45] @@
    ("Clay Loam" :> 48) @@ ("Sandy Loam" :> 28) @@ [Peaty |-> 60]


\* an unknown soil type left at 0 instead of 35
FieldCapacity_nodefault(soil_type) ==
    IF soil_type \in DOMAIN field_capacity THEN field_capacity[soil_type] ELSE 0

\* merged["soil_type"].map(field_capacity).fillna(35), in units
FieldCapacity(soil_type) ==
    IF soil_type \in DOMAIN field_capacity THEN field_capacity[soil_type] ELSE 35

\* field_capacity * 0.5 - moisture_pct, in thousandths
MoistureDeficit(soil_type, moisture_pct) == FieldCapacity(soil_type) * 500 - moisture_pct


\* rainfall added instead of subtracted
IrrigationNeed_rainadded(soil_type, moisture_pct, evapotranspiration_est, rainfall_mm) ==
    Clip(MoistureDeficit(soil_type, moisture_pct) + evapotranspiration_est * 5
         + (rainfall_mm * 8) \div 10, U(0), U(50))

\* np.clip(moisture_deficit + evapotranspiration_est * 5 - rainfall_mm * 0.8, 0, 50).
\* rainfall_mm is a sum of readings rounded to one decimal, a multiple of 100
\* thousandths, so the division by 10 is exact
IrrigationNeed(soil_type, moisture_pct, evapotranspiration_est, rainfall_mm) ==
    Clip(MoistureDeficit(soil_type, moisture_pct) + evapotranspiration_est * 5
         - (rainfall_mm * 8) \div 10, U(0), U(50))

-----------------------------------------------------------------------------
(* generate_synthetic_data.py: calendar and temporal patterns *)

\* 365 * 2 * 24, the exclusive bound of np.random.randint
HorizonHours == 365 * 2 * 24

\* start_date + timedelta(hours = h): 2024 is a leap year, 2025 is not
YearOf(h) == IF h \div 24 < 366 THEN 2024 ELSE 2025

\* ts.timetuple().tm_yday
DayOfYear(h) == IF h \div 24 < 366 THEN h \div 24 + 1 ELSE h \div 24 - 366 + 1

MonthLengths(year) ==
    <<31, IF year = 2024 THEN 29 ELSE 28, 31, 30, 31, 30, 31, 31, 30, 31, 30, 31>>

\* <<month, day>> of the day-of-year yday, counting from month m
RECURSIVE MonthDay(_, _, _)
MonthDay(year, yday, m) ==
    IF yday <= MonthLengths(year)[m] THEN <<m, yday>>
    ELSE MonthDay(year, yday - MonthLengths(year)[m], m + 1)

\* ts.strftime("%Y-%m-%d %H:%M:%S"): the zero-padded fields, in the string's order
Strftime(h) ==
    LET md == MonthDay(YearOf(h), DayOfYear(h), 1)
    IN  <<YearOf(h), md[1], md[2], h % 24, 0, 0>>

\* 1000 * sin(2 * pi * a / period), by Bhaskara's approximation
\* sin(x) = 16 x (pi - x) / (5 pi^2 - 4 x (pi - x)) on a half turn, which is
\* exact at 0, 1/12, 1/4 and 1/2 turn and within 0.002 elsewhere
Sin(a, period) ==
    LET b == (2 * a) % (2 * period)
        h == IF b < period THEN b ELSE b - period
        P == h * (period - h)
        v == (16000 * P) \div (5 * period * period - 4 * P)
    IN  IF b < period THEN v ELSE -v

\* 0.5 + 0.5 * np.sin(2 * np.pi * (day_of_year - 80) / 365), in thousandths
Seasonal(day_of_year) == 500 + Sin(day_of_year - 80, 365) \div 2

\* max(0.1, 0.3 + 0.7 * np.sin(2 * np.pi * (day_of_year - 150) / 365))
MoistureSeasonal(day_of_year) ==
    Max2(100, 300 + (700 * Sin(day_of_year - 150, 365)) \div 1000)

\* a draw of np.random.normal(0, sigma): z thousandths of a standard
\* deviation, sigma in thousandths
Normal(sigma, z) == (sigma * z) \div 1000

\* x * y for two numbers in thousandths
Times(x, y) == (x * y) \div 1000

-----------------------------------------------------------------------------
(* preprocessing.py: estimate_eto *)

\* the largest integer whose square is an integer of 32 bits
SqrtMax == 46340

\* the largest r of lo..hi with r * r <= n
RECURSIVE SqrtBetween(_, _, _)
SqrtBetween(n, lo, hi) ==
    IF lo = hi THEN lo
    ELSE LET mid == (lo + hi + 1) \div 2
         IN  IF mid * mid <= n THEN SqrtBetween(n, mid, hi)
             ELSE SqrtBetween(n, lo, mid - 1)

\* np.sqrt(x), x >= 0 and the result in thousandths, rounded down
Sqrt(x) == SqrtBetween(x * 1000, 0, SqrtMax)

\* 0.0023 * (temp_c + 17.8) * np.sqrt(radicand) * (1 - humidity_pct / 100)
\* * (1 + 0.01 * wind_speed), the arguments in thousandths (humidity and
\* wind speed multiples of 0.1), the product in ten-thousandths
EtoProduct(temp_c, humidity_pct, radicand, wind_speed) ==
    LET scaled == ((temp_c + 17800) * 23) \div 100
        rooted == (scaled * Sqrt(radicand)) \div 10000
        dried  == (rooted * ((100000 - humidity_pct) \div 100)) \div 1000
    IN  (dried * ((100000 + wind_speed) \div 100)) \div 1000

\* the radicand taken as abs(solar_rad) + 1
estimate_eto_abs_first(temp_c, humidity_pct, solar_rad, wind_speed) ==
    RoundTo(Clip(EtoProduct(temp_c, humidity_pct, Abs(solar_rad) + 1000, wind_speed),
                 0, 150000), 100) \div 10

\* lines 88-96: np.round(np.clip(eto, 0, 15), 2), in thousandths
estimate_eto(temp_c, humidity_pct, solar_rad, wind_speed) ==
    RoundTo(Clip(EtoProduct(temp_c, humidity_pct, Abs(solar_rad + 1000), wind_speed),
                 0, 150000), 100) \div 10

-----------------------------------------------------------------------------
(* generate_synthetic_data.py: generate_soil_data *)

Zone(soil_type, base_pH, base_N, base_P, base_K, base_moisture) ==
    [soil_type |-> soil_type, base_pH |-> base_pH, base_N |-> U(base_N),
     base_P |-> U(base_P), base_K |-> U(base_K), base_moisture |-> U(base_moisture)]

ZONE_PROFILES ==
    [Zone_1 |-> Zone("Loamy", D(65), 80, 45, 60, 35),
     Zone_2 |-> Zone("Clay", D(72), 60, 35, 50, 45),
     Zone_3 |-> Zone("Sandy", D(58), 40, 20, 35, 15),
     Zone_4 |-> Zone("Silt", D(68), 70, 40, 55, 40),
     Zone_5 |-> Zone("Loamy", D(62), 90, 50, 70, 32),
     Zone_6 |-> Zone("Clay Loam", D(70), 55, 30, 45, 42),
     Zone_7 |-> Zone("Sandy Loam", D(60), 50, 25, 40, 22),
     Zone_8 |-> Zone("Peaty", D(55), 100, 55, 75, 55)]

SoilNoise == {"nitrogen_mg_kg", "phosphorus_mg_kg", "potassium_mg_kg", "ph",
              "organic_matter_pct", "moisture_pct", "soil_temperature_c", "ec_mscm"}

\* the dict of lines 75-87; z gives each np.random.normal draw
SoilRecord(ts, zone, z) ==
    LET profile  == ZONE_PROFILES[zone]
        seasonal == Seasonal(DayOfYear(ts))
        moisture_seasonal == MoistureSeasonal(DayOfYear(ts))
    IN  [timestamp |-> Strftime(ts),
         zone_id |-> zone,
         soil_type |-> profile.soil_type,
         nitrogen_mg_kg |->
             Max2(U(5), Times(profile.base_N, 700 + Times(600, seasonal))
                        + Normal(U(12), z["nitrogen_mg_kg"])),
         phosphorus_mg_kg |->
             Max2(U(2), Times(profile.base_P, 800 + Times(400, seasonal))
                        + Normal(U(8), z["phosphorus_mg_kg"])),
         potassium_mg_kg |->
             Max2(U(5), Times(profile.base_K, 750 + Times(500, seasonal))
                        + Normal(U(10), z["potassium_mg_kg"])),
         ph |-> Clip(profile.base_pH + Normal(D(3), z["ph"]), U(4), U(9)),
         organic_matter_pct |->
             Clip(D(35) + Normal(D(12), z["organic_matter_pct"])
                  + (IF profile.soil_type = "Peaty" THEN U(1) ELSE 0), D(5), U(12)),
         moisture_pct |->
             Clip(Times(profile.base_moisture, moisture_seasonal)
                  + Normal(U(5), z["moisture_pct"]), U(2), U(80)),
         soil_temperature_c |->
             Clip(U(15) + Times(U(15), seasonal) + Normal(U(3), z["soil_temperature_c"]),
                  U(5), U(45)),
         ec_mscm |-> Clip(D(15) + Normal(D(6), z["ec_mscm"]), D(1), U(5))]

\* the columns line 93 injects missing values into
SoilMissingColumns == {"nitrogen_mg_kg", "phosphorus_mg_kg", "ec_mscm"}

SoilNumericColumns == SoilNoise

-----------------------------------------------------------------------------
(* generate_synthetic_data.py: generate_water_data *)

Source(ph, tds, turb, do, hard, cl, so4, no3) ==
    [ph |-> ph, tds |-> U(tds), turb |-> U(turb), do |-> U(do), hard |-> U(hard),
     cl |-> U(cl), so4 |-> U(so4), no3 |-> U(no3)]

source_factors ==
    [Borewell  |-> Source(D(75), 600, 2, 5, 250, 100, 80, 15),
     River     |-> Source(D(70), 350, 15, 7, 150, 50, 40, 25),
     Canal     |-> Source(D(72), 450, 20, 6, 180, 70, 55, 30),
     Rainwater |-> Source(D(65), 50, 3, 8, 30, 10, 10, 5)]

WaterNoise == {"ph", "tds_ppm", "turbidity_ntu", "dissolved_oxygen_mg_l", "hardness_mg_l",
               "chloride_mg_l", "sulfate_mg_l", "nitrate_mg_l", "water_temperature_c"}

\* the dict of lines 168-181, from the values and the grade of lines 139-166
WaterRecord(ts, source, z) ==
    LET seasonal == Seasonal(DayOfYear(ts))
        f  == source_factors[source]
        ph == Clip(f.ph + Normal(D(4), z["ph"]), D(45), D(95))
        tds == Max2(U(10), f.tds + Normal(Times(f.tds, 200), z["tds_ppm"]))
        turbidity ==
            Max2(D(1), Times(f.turb, 1000 + Times(500, seasonal))
                       + Normal(Times(f.turb, 300), z["turbidity_ntu"]))
        dissolved_o2 == Clip(f.do + Normal(D(12), z["dissolved_oxygen_mg_l"]), U(1), U(14))
        hardness == Max2(U(10), f.hard + Normal(Times(f.hard, 150), z["hardness_mg_l"]))
        chloride == Max2(U(1), f.cl + Normal(Times(f.cl, 200), z["chloride_mg_l"]))
        sulfate == Max2(U(1), f.so4 + Normal(Times(f.so4, 200), z["sulfate_mg_l"]))
        nitrate ==
            Max2(D(5), Times(f.no3, 1000 + Times(300, seasonal))
                       + Normal(Times(f.no3, 250), z["nitrate_mg_l"]))
        temp == Clip(U(20) + Times(U(10), seasonal) + Normal(U(3), z["water_temperature_c"]),
                     U(8), U(38))
        score == QualityScore(ph, tds, turbidity, dissolved_o2, nitrate)
    IN  [timestamp |-> Strftime(ts),
         source_type |-> source,
         ph |-> RoundTo(ph, 10),
         tds_ppm |-> RoundTo(tds, 100),
         turbidity_ntu |-> RoundTo(turbidity, 10),
         dissolved_oxygen_mg_l |-> RoundTo(dissolved_o2, 10),
         hardness_mg_l |-> RoundTo(hardness, 100),
         chloride_mg_l |-> RoundTo(chloride, 100),
         sulfate_mg_l |-> RoundTo(sulfate, 100),
         nitrate_mg_l |-> RoundTo(nitrate, 10),
         water_temperature_c |-> RoundTo(temp, 100),
         quality_grade |-> QualityGrade(score)]

\* the columns line 186 injects missing values into
WaterMissingColumns == {"turbidity_ntu", "dissolved_oxygen_mg_l"}

WaterNumericColumns == WaterNoise

-----------------------------------------------------------------------------
(* generate_synthetic_data.py: generate_weather_data *)

\* 10000 * exp(-y) for y in ten-thousandths, 0 <= y <= 10000, by the Pade
\* approximant (12 - 6 y + y^2) / (12 + 6 y + y^2), within 0.0001 there
ExpSmall(y) ==
    LET sq == (y * y) \div 10000
    IN  ((120000 - 6 * y + sq) * 10000) \div (120000 + 6 * y + sq)

RECURSIVE Squared(_, _)
Squared(x, times) ==
    IF times = 0 THEN x ELSE Squared((x * x) \div 10000, times - 1)

\* 1000 * np.exp(-x) for x in thousandths, 0 <= x <= 16000: exp(-x / 16) ^ 16
ExpNeg(x) == Squared(ExpSmall((x * 10) \div 16), 4) \div 10

\* 0.5 + 0.5 * np.sin(2 * np.pi * (hour - 6) / 24), in thousandths
Diurnal(hour) == 500 + Sin(hour - 6, 24) \div 2

\* np.exp(-0.5 * ((day_of_year - 210) / 40) ** 2), in thousandths
MonsoonFactor(day_of_year) ==
    ExpNeg((500 * (day_of_year - 210) * (day_of_year - 210)) \div 1600)

\* the step rounded up, not down
WeatherTimestampsOf_ceil(n) == [k \in 1..n |-> (k - 1) * ((HorizonHours + n - 1) \div n)]

\* start_date + timedelta(hours = i * (365 * 2 * 24 // n_records)) for i in
\* range(n_records), as hours; no division is made when n_records is 0
WeatherTimestampsOf(n) == [k \in 1..n |-> (k - 1) * (HorizonHours \div n)]

WeatherNoise == {"temperature_c", "humidity_pct", "rainfall_mm", "rainy", "wind_speed_kmh",
                 "solar_radiation_wm2", "pressure_hpa", "uv_index"}

\* a day is dry when the uniform draw is below the threshold
Rainfall_gate_inverted(monsoon_factor, exponential, rainy) ==
    LET drawn == Max2(0, Times(5 * monsoon_factor + 500, exponential))
    IN  IF rainy < 300 + Times(400, monsoon_factor) THEN 0 ELSE drawn

\* lines 222-224: max(0, np.random.exponential(5 * monsoon_factor + 0.5)),
\* exponential being the draw for the scale 1, and then 0 if
\* np.random.random() > 0.3 + 0.4 * monsoon_factor
Rainfall(monsoon_factor, exponential, rainy) ==
    LET drawn == Max2(0, Times(5 * monsoon_factor + 500, exponential))
    IN  IF rainy > 300 + Times(400, monsoon_factor) THEN 0 ELSE drawn

\* the dict of lines 234-242 from the values of lines 210-232; z gives the
\* draw of each np.random call in thousandths: of a deviation for normal,
\* of the scale for exponential, and the value of random, weibull, uniform
WeatherRecord(ts, z) ==
    LET day_of_year == DayOfYear(ts)
        hour == ts % 24
        seasonal == Seasonal(day_of_year)
        diurnal == Diurnal(hour)
        temp == U(15) + 20 * seasonal + 5 * diurnal + Normal(U(2), z["temperature_c"])
        humidity ==
            Clip(U(60) + Times(Times(U(25), 1000 - seasonal), 1000 - Times(300, diurnal))
                 + Normal(U(8), z["humidity_pct"]), U(15), U(100))
        monsoon_factor == MonsoonFactor(day_of_year)
        rainfall == Rainfall(monsoon_factor, z["rainfall_mm"], z["rainy"])
        wind_speed == Max2(0, z["wind_speed_kmh"] * 8 + U(3))
        solar_radiation ==
            Max2(0, Times(Times(300 * diurnal, 700 + Times(300, seasonal)),
                          z["solar_radiation_wm2"]))
        pressure == U(1013) + Normal(U(5), z["pressure_hpa"])
        uv_index ==
            Max2(0, RoundTo(Times(8 * diurnal, seasonal) + Normal(U(1), z["uv_index"]), 1000))
    IN  [timestamp |-> Strftime(ts),
         temperature_c |-> RoundTo(temp, 100),
         humidity_pct |-> RoundTo(humidity, 100),
         rainfall_mm |-> RoundTo(rainfall, 100),
         wind_speed_kmh |-> RoundTo(wind_speed, 100),
         solar_radiation_wm2 |-> RoundTo(solar_radiation, 100),
         pressure_hpa |-> RoundTo(pressure, 100),
         uv_index |-> Clip(uv_index, U(0), U(12))]

WeatherNumericColumns ==
    {"temperature_c", "humidity_pct", "rainfall_mm", "wind_speed_kmh",
     "solar_radiation_wm2", "pressure_hpa", "uv_index"}

-----------------------------------------------------------------------------
(* The inputs the scoring calls are tried on *)

MaxNutrient == 200      \* mg/kg

MaxPh == 14

MaxPct == 100           \* organic matter and moisture, percent

MaxEc == 6              \* mS/cm

MaxScoreDraw == 110     \* points

MaxTds == 2500          \* ppm; chloride, sulfate and hardness in mg/L too

\* every tenth from 0 to max units
Tenths(max) == {D(i) : i \in 0..(10 * max)}

Around(t) == {t - 1, t, t + 1}

Ideal ==
    [f \in SoilFields |->
        Num(CASE f = "nitrogen_mg_kg"     -> U(80)
              [] f = "phosphorus_mg_kg"   -> U(45)
              [] f = "potassium_mg_kg"    -> U(60)
              [] f = "ph"                 -> D(70)
              [] f = "organic_matter_pct" -> D(45)
              [] f = "moisture_pct"       -> U(30)
              [] f = "ec_mscm"            -> D(15))]

FieldMax(f) ==
    CASE f \in {"nitrogen_mg_kg", "phosphorus_mg_kg", "potassium_mg_kg"} -> MaxNutrient
      [] f = "ph" -> MaxPh
      [] f \in {"organic_matter_pct", "moisture_pct"} -> MaxPct
      [] f = "ec_mscm" -> MaxEc

\* every field at one of: far below, its ideal, far above
CoarseSoilReading(c) ==
    [f \in SoilFields |-> Num(IF c[f] = 0 THEN -U(FieldMax(f))
                              ELSE IF c[f] = 1 THEN Ideal[f].val
                              ELSE U(FieldMax(f)))]

\* the reading with field f NaN
WithNaN(reading, f) == [reading EXCEPT ![f] = NaN]

\* the reading without the key f
Without(reading, f) == [g \in DOMAIN reading \ {f} |-> reading[g]]

ScoreDraws ==
    {Num(v) : v \in {D(i) : i \in (-100)..(10 * MaxScoreDraw)}
                    \cup Around(U(40)) \cup Around(U(60)) \cup Around(U(80))}
    \cup {NaN}

DiagnoseFields == {"nitrogen_mg_kg", "phosphorus_mg_kg", "potassium_mg_kg", "ph"}

DiagnoseDraws(f) ==
    CASE f = "nitrogen_mg_kg"   -> {0, U(30), U(50), U(MaxNutrient)} \cup Around(U(40)) \cup Around(U(60))
      [] f = "phosphorus_mg_kg" -> {0, U(MaxNutrient)} \cup Around(U(15)) \cup Around(U(25))
      [] f = "potassium_mg_kg"  -> {0, U(MaxNutrient)} \cup Around(U(25)) \cup Around(U(35))
      [] f = "ph"               -> {0, D(70), U(MaxPh)} \cup Around(D(55)) \cup Around(D(80))

FullDiagnoseReadings ==
    {[nitrogen_mg_kg |-> Num(n), phosphorus_mg_kg |-> Num(p),
      potassium_mg_kg |-> Num(k), ph |-> Num(ph)] :
        n \in DiagnoseDraws("nitrogen_mg_kg"), p \in DiagnoseDraws("phosphorus_mg_kg"),
        k \in DiagnoseDraws("potassium_mg_kg"), ph \in DiagnoseDraws("ph")}

LimitFields == {LimitParams[i] : i \in DOMAIN LimitParams}

LimitDraws(f) ==
    CASE f = "ph"            -> {0, D(70), U(MaxPh)} \cup Around(D(60)) \cup Around(D(85))
      [] f = "tds_ppm"       -> {U(300), U(2000), U(2000) + 1, U(MaxTds)}
      [] f = "chloride_mg_l" -> {U(100), U(350), U(350) + 1}
      [] f = "sulfate_mg_l"  -> {U(80), U(400), U(400) + 1}
      [] f = "hardness_mg_l" -> {U(250), U(500), U(500) + 1}

FullWaterReadings ==
    {[ph |-> Num(ph), tds_ppm |-> Num(tds), chloride_mg_l |-> Num(cl),
      sulfate_mg_l |-> Num(so4), hardness_mg_l |-> Num(hard)] :
        ph \in LimitDraws("ph"), tds \in LimitDraws("tds_ppm"),
        cl \in LimitDraws("chloride_mg_l"), so4 \in LimitDraws("sulfate_mg_l"),
        hard \in LimitDraws("hardness_mg_l")}

\* the readings the water rubric is tried on: [ph, tds, turbidity, dissolved_o2, nitrate]
RubricDraws ==
    [ph           : {U(3), D(60) - 1, D(60), D(65) - 1, D(65), D(70), D(85), D(85) + 1,
                     D(90), D(90) + 1, U(MaxPh)},
     tds          : {U(300), U(500) - 1, U(500), U(1000) - 1, U(1000), U(2000), U(MaxTds)},
     turbidity    : {U(3), U(5) - 1, U(5), U(10) - 1, U(10), U(50)},
     dissolved_o2 : {U(1), U(4), U(4) + 1, U(6), U(6) + 1, U(7)},
     nitrate      : {U(5), U(10) - 1, U(10), U(45) - 1, U(45), U(100)}]

MaxMoistureStep == 6

MaxEtoStep == 15

MaxRainStep == 12

SoilTypeDraws == DOMAIN field_capacity \cup {"Chalky"}

MoistureDraws == {U(2) + U(13) * i : i \in 0..MaxMoistureStep}

EtoDraws == {U(i) : i \in 0..MaxEtoStep} \cup {10, 1230}

RainDraws == {U(5) * i : i \in 0..MaxRainStep} \cup {100}

-----------------------------------------------------------------------------
(* The scoring engine.  The functions keep no state between calls, so a    *)
(* behaviour is one call: Init draws the function and its argument, the    *)
(* action runs it.                                                         *)

InitTables ==
    /\ DEFICIENCY_THRESHOLDS = DeficiencyThresholds0
    /\ AMENDMENT_RECOMMENDATIONS = AmendmentRecommendations0
    /\ IRRIGATION_LIMITS = IrrigationLimits0

InitGen ==
    /\ pc = "idle"
    /\ n_records = 0
    /\ timestamps = <<>>
    /\ contexts = <<>>
    /\ records = <<>>
    /\ df = <<>>
    /\ rng = [seed |-> 42, drawn |-> <<>>]
    /\ stream = <<>>
    /\ seedings = <<"generate_synthetic_data.py:14">>
    /\ runs = <<>>

Pending(op, arg) == [op |-> op, arg |-> arg, returned |-> FALSE]

IrrigationRows ==
    [soil_type : SoilTypeDraws, moisture_pct : MoistureDraws,
     evapotranspiration_est : EtoDraws, rainfall_mm : RainDraws]

InitCall ==
    /\ InitTables
    /\ InitGen

\* the process after the import of the modules, before any call
InitSeeded ==
    /\ InitCall
    /\ call = [op |-> "import", arg |-> 0, returned |-> TRUE]

Run(op) == call.op = op /\ ~call.returned

\* as if diagnose had taken the table's own list of nitrogen amendments for
\* its recommendations, and extended that
Return_aliased(ret) ==
    /\ call' = [call EXCEPT !.returned = TRUE] @@ [ret |-> ret]
    /\ runs' = Append(runs, call')
    /\ AMENDMENT_RECOMMENDATIONS' =
            IF call.op = "diagnose"
            THEN [AMENDMENT_RECOMMENDATIONS EXCEPT !.N_deficient = @ \o ret.recommendations]
            ELSE AMENDMENT_RECOMMENDATIONS
    /\ UNCHANGED <<DEFICIENCY_THRESHOLDS, IRRIGATION_LIMITS, locals, random>>

\* the return of a scoring function: the functions read their argument and
\* the module tables and write neither
Return(ret) ==
    /\ call' = [call EXCEPT !.returned = TRUE] @@ [ret |-> ret]
    /\ runs' = Append(runs, call')
    /\ UNCHANGED <<tables, locals, random>>

ScoreSoil ==
    /\ Run("generate_soil_health_score")
    /\ Return(generate_soil_health_score(call.arg))

Categorize ==
    /\ Run("categorize_health_score")
    /\ Return(categorize_health_score(call.arg))

Diagnose ==
    /\ Run("diagnose")
    /\ Return(diagnose(call.arg))

AssessIrrigation ==
    /\ Run("assess_irrigation_suitability")
    /\ Return(assess_irrigation_suitability(call.arg))

\* lines 149-166 of generate_water_data, on one reading
GradeWater ==
    /\ Run("quality_grade")
    /\ LET w      == call.arg
           points == <<PhPoints(w.ph), TdsPoints(w.tds), TurbidityPoints(w.turbidity),
                       OxygenPoints(w.dissolved_o2), NitratePoints(w.nitrate)>>
           score  == QualityScore(w.ph, w.tds, w.turbidity, w.dissolved_o2, w.nitrate)
       IN  Return([points |-> points, score |-> score, grade |-> QualityGrade(score)])

\* lines 76-89 of create_irrigation_dataset, on one row of merged
IrrigationNeedRow ==
    /\ Run("irrigation_need_mm")
    /\ LET row == call.arg
       IN  Return([field_capacity |-> U(FieldCapacity(row.soil_type)),
                   moisture_deficit |-> MoistureDeficit(row.soil_type, row.moisture_pct),
                   irrigation_need_mm |->
                       IrrigationNeed(row.soil_type, row.moisture_pct,
                                      row.evapotranspiration_est, row.rainfall_mm)])

\* soil health: the score and its category.  A soil reading is coarse, or
\* has one field swept over its range, NaN or missing, the others ideal
InitScore ==
    /\ InitCall
    /\ \/ \E c \in [SoilFields -> 0..2] :
            call = Pending("generate_soil_health_score", CoarseSoilReading(c))
       \/ \E f \in SoilFields :
            \/ \E v \in Tenths(FieldMax(f)) :
                call = Pending("generate_soil_health_score", [Ideal EXCEPT ![f] = Num(v)])
            \/ call = Pending("generate_soil_health_score", WithNaN(Ideal, f))
            \/ call = Pending("generate_soil_health_score", Without(Ideal, f))
       \/ \E score \in ScoreDraws : call = Pending("categorize_health_score", score)

NextScore == ScoreSoil \/ Categorize

SpecScore == InitScore /\ [][NextScore]_vars

\* a full reading, or one with a field NaN, or one with a key missing
InitGaps(op, full) ==
    \E r \in full :
        \/ call = Pending(op, r)
        \/ \E f \in DOMAIN r :
            call = Pending(op, WithNaN(r, f)) \/ call = Pending(op, Without(r, f))

\* nutrient deficiency diagnosis
InitDiagnose == InitCall /\ InitGaps("diagnose", FullDiagnoseReadings)

NextDiagnose == Diagnose

SpecDiagnose == InitDiagnose /\ [][NextDiagnose]_vars

\* the batch labels, on a frame of one row: a full reading, or one with a
\* value NaN
InitLabels ==
    /\ InitCall
    /\ \E r \in FullDiagnoseReadings :
        \/ call = Pending("create_deficiency_labels", r)
        \/ \E f \in DOMAIN r : call = Pending("create_deficiency_labels", WithNaN(r, f))

CreateDeficiencyLabels ==
    /\ Run("create_deficiency_labels")
    /\ Return([raised |-> "no", value |-> create_deficiency_labels(call.arg)])

NextLabels == CreateDeficiencyLabels

SpecLabels == InitLabels /\ [][NextLabels]_vars

\* water: irrigation suitability and the quality grade
InitWater ==
    /\ InitCall
    /\ \/ InitGaps("assess_irrigation_suitability", FullWaterReadings)
       \/ \E w \in RubricDraws : call = Pending("quality_grade", w)

NextWater == AssessIrrigation \/ GradeWater

SpecWater == InitWater /\ [][NextWater]_vars

\* irrigation need
InitIrrigation ==
    /\ InitCall
    /\ \E row \in IrrigationRows : call = Pending("irrigation_need_mm", row)

NextIrrigation == IrrigationNeedRow

SpecIrrigation == InitIrrigation /\ [][NextIrrigation]_vars

\* estimate_eto on one row of weather: temperatures on both sides of -17.8,
\* humidities on both sides of 100, solar radiations on both sides of 0 and
\* of -1, calm and storm
EtoTempDraws == {-40000, -17800, -10000, 0, 25000, 50000}

EtoHumidityDraws == {0, 50000, 100000, 120000}

EtoSolarDraws == {-900000, -1000, -500, 0, 300000, 1500000}

EtoWindDraws == {0, 10000, 200000}

EtoRows ==
    [temp_c : EtoTempDraws, humidity_pct : EtoHumidityDraws,
     solar_rad : EtoSolarDraws, wind_speed : EtoWindDraws]

InitEto ==
    /\ InitCall
    /\ \E row \in EtoRows : call = Pending("estimate_eto", row)

EstimateEto ==
    /\ Run("estimate_eto")
    /\ Return([raised |-> "no",
               value |-> estimate_eto(call.arg.temp_c, call.arg.humidity_pct,
                                      call.arg.solar_rad, call.arg.wind_speed)])

NextEto == EstimateEto

SpecEto == InitEto /\ [][NextEto]_vars

-----------------------------------------------------------------------------
(* A process that calls the scoring functions one after another *)

MaxScoringCalls == 3

DiagnoseReading(n, p, k, ph) ==
    [nitrogen_mg_kg |-> Num(n), phosphorus_mg_kg |-> Num(p), potassium_mg_kg |-> Num(k),
     ph |-> Num(ph)]

LimitReading(ph, tds, cl, so4, hard) ==
    [ph |-> Num(ph), tds_ppm |-> Num(tds), chloride_mg_l |-> Num(cl),
     sulfate_mg_l |-> Num(so4), hardness_mg_l |-> Num(hard)]

\* the readings a function is called on, more than once
RepeatDraws(op) ==
    CASE op = "generate_soil_health_score" ->
            {Ideal, CoarseSoilReading([f \in SoilFields |-> 0]), WithNaN(Ideal, "ph"),
             Without(Ideal, "ec_mscm")}
      [] op = "categorize_health_score" -> {Num(U(80)), Num(U(40) - 1), NaN}
      [] op = "diagnose" ->
            {DiagnoseReading(U(80), U(45), U(60), D(70)),
             DiagnoseReading(U(30), U(20), U(60), D(50)),
             Without(DiagnoseReading(U(80), U(45), U(60), D(85)), "potassium_mg_kg")}
      [] op = "assess_irrigation_suitability" ->
            {LimitReading(D(70), U(300), U(100), U(80), U(250)),
             LimitReading(D(50), U(2500), U(100), U(80), U(250)),
             WithNaN(LimitReading(D(70), U(300), U(100), U(80), U(250)), "tds_ppm"),
             Without(LimitReading(D(70), U(300), U(100), U(80), U(250)), "ph")}

ScoringFunctions ==
    {"generate_soil_health_score", "categorize_health_score", "diagnose",
     "assess_irrigation_suitability"}

\* the entry of a call; given keeps the reading as the caller passed it
CallScoring ==
    /\ call.returned
    /\ Len(runs) < MaxScoringCalls
    /\ \E op \in ScoringFunctions : \E reading \in RepeatDraws(op) :
            call' = Pending(op, reading) @@ [given |-> reading]
    /\ UNCHANGED <<tables, genvars>>

NextRepeat ==
    \/ CallScoring
    \/ ScoreSoil
    \/ Categorize
    \/ Diagnose
    \/ AssessIrrigation

SpecRepeat == InitSeeded /\ [][NextRepeat]_vars

-----------------------------------------------------------------------------
(* The runs of generate_soil_data and generate_water_data *)

MaxRecords == 2

\* the hours np.random.randint(0, 365 * 2 * 24) is tried on: the first hour,
\* an hour of the summer of 2024, and the last hour of the horizon
HourDraws == {0, 4379, HorizonHours - 1}

\* the zones whose mixtures np.random.choice is tried on: the poorest and
\* the richest profile
ZoneDraws == {"Zone_3", "Zone_8"}

SourceDraws == {"Borewell", "Rainwater"}

\* what np.random.choice(keys, n) is tried on: every key, in all the rows,
\* and every mixture of the keys of mixed
ChoiceDraws(keys, mixed, n) == {[i \in 1..n |-> key] : key \in keys} \cup [1..n -> mixed]

\* the noise vectors of one row: every draw far below the mean, every draw
\* far above it, or every draw a fraction of a deviation above it
ZDraws == {-12000, 1234, 12000}

NoiseDraws(fields) == {[f \in fields |-> z] : z \in ZDraws}

\* what the np.random calls of one weather row are tried on: a still, dry
\* reading far below the means; a day of rain near them; a storm far above
\* them; and the same far above them on a day without rain
WeatherDraw(normal, exponential, rainy, weibull, uniform) ==
    [temperature_c |-> normal, humidity_pct |-> normal, pressure_hpa |-> normal,
     uv_index |-> normal, rainfall_mm |-> exponential, rainy |-> rainy,
     wind_speed_kmh |-> weibull, solar_radiation_wm2 |-> uniform]

WeatherDraws ==
    {WeatherDraw(-12000, 0, 999, 0, 500),
     WeatherDraw(1234, 1234, 0, 886, 850),
     WeatherDraw(12000, 12000, 0, 4000, 1199),
     WeatherDraw(12000, 12000, 999, 4000, 1199)}

\* the rows np.random.random(len(df)) < rate selects in each column: none
\* in any column; the first row, or all rows, in one column; all rows in
\* every column
MaskDraws(columns, n) ==
    {[c \in columns |-> IF c = one THEN rows ELSE {}] :
        one \in columns, rows \in {{}, 1..Min2(n, 1), 1..n}}
    \cup {[c \in columns |-> 1..n]}

Sort_skipped(ts) == ts

\* timestamps.sort()
Sort(ts) == SortSeq(ts, LAMBDA a, b : a < b)

\* pd.DataFrame(records): the numeric columns become float columns
DataFrame(recs, numeric) ==
    [i \in 1..Len(recs) |->
        [c \in DOMAIN recs[i] |->
            IF c \in numeric THEN Num(recs[i][c]) ELSE recs[i][c]]]

\* df.loc[mask] = np.nan: the whole row of every selected index
InjectMissing_whole_row(frame, mask) ==
    [i \in 1..Len(frame) |->
        [c \in DOMAIN frame[i] |->
            IF \E col \in DOMAIN mask : i \in mask[col] THEN NaN ELSE frame[i][c]]]

\* df.loc[mask, col] = np.nan, for every col of the loop, mask[col] being
\* the rows the mask of that iteration selects
InjectMissing(frame, mask) ==
    [i \in 1..Len(frame) |->
        [c \in DOMAIN frame[i] |->
            IF c \in DOMAIN mask /\ i \in mask[c] THEN NaN ELSE frame[i][c]]]

\* lines 90-97 and 183-190: the frame of no records has no columns and no
\* index, and df.loc[mask, col] = np.nan on it raises ValueError ("cannot
\* set a frame with no defined index and a scalar")
Frame(recs, numeric, mask) ==
    IF Len(recs) = 0 THEN [raised |-> "ValueError"]
    ELSE [raised |-> "no", value |-> InjectMissing(DataFrame(recs, numeric), mask)]

NpRandomSeed_continues(site, seed) ==
    /\ rng' = [seed |-> seed, drawn |-> rng.drawn]
    /\ seedings' = Append(seedings, site)
    /\ UNCHANGED stream

\* np.random.seed(seed), called at the place site
NpRandomSeed(site, seed) ==
    /\ rng' = [seed |-> seed, drawn |-> <<>>]
    /\ seedings' = Append(seedings, site)
    /\ UNCHANGED stream

\* where the generator is once it has been asked for the draws of request
After(request) == <<rng.seed, Append(rng.drawn, request)>>

\* the values a request can give: the generator is a function of its seed
\* and of the requests made since, any function until a value has been
\* seen, that value afterwards
Draws(request, values) ==
    IF After(request) \in DOMAIN stream THEN {stream[After(request)]} ELSE values

\* the generator gives value for request and moves on
Consume(request, value) ==
    /\ rng' = [rng EXCEPT !.drawn = Append(@, request)]
    /\ stream' = (IF After(request) \in DOMAIN stream THEN stream
                  ELSE (After(request) :> value) @@ stream)
    /\ UNCHANGED seedings

\* the record counts below 0 a generator is called with
InvalidCounts == {-1}

InitGenerate ==
    /\ InitCall
    /\ \E op \in {"generate_soil_data", "generate_water_data", "generate_weather_data"},
          n \in (0..MaxRecords) \cup InvalidCounts :
            call = Pending(op, n)

\* lines 55-58 and 114-117: n_records random hours of the horizon, sorted
DrawTimestamps(op) ==
    /\ Run(op)
    /\ pc = "idle"
    /\ n_records' = call.arg
    /\ \E hours \in Draws(<<"randint", call.arg>>, [1..call.arg -> HourDraws]) :
            /\ Consume(<<"randint", call.arg>>, hours)
            /\ timestamps' = Sort(hours)
    /\ pc' = "contexts"
    /\ UNCHANGED <<tables, call, contexts, records, df, runs>>

\* lines 61 and 119-123: np.random.choice of a negative size raises
\* ValueError ("negative dimensions are not allowed") and draws nothing
ChoiceRaises(op) ==
    /\ Run(op)
    /\ pc = "contexts"
    /\ n_records < 0
    /\ call' = [call EXCEPT !.returned = TRUE] @@ [ret |-> [raised |-> "ValueError"]]
    /\ runs' = Append(runs, call')
    /\ pc' = "done"
    /\ UNCHANGED <<tables, n_records, timestamps, contexts, records, df, random>>

\* lines 61 and 119-123: a zone, or a source, for every record
DrawContexts(op, keys, mixed) ==
    /\ Run(op)
    /\ pc = "contexts"
    /\ n_records >= 0
    /\ \E chosen \in Draws(<<"choice", n_records>>, ChoiceDraws(keys, mixed, n_records)) :
            /\ Consume(<<"choice", n_records>>, chosen)
            /\ contexts' = chosen
    /\ pc' = "loop"
    /\ UNCHANGED <<tables, call, n_records, timestamps, records, df, runs>>

\* the soil type of every row taken from the zone of the first row
RecordOf_first_zone(op, i, z) ==
    IF op = "generate_soil_data"
    THEN [SoilRecord(timestamps[i], contexts[i], z)
            EXCEPT !.soil_type = ZONE_PROFILES[contexts[1]].soil_type]
    ELSE IF op = "generate_water_data"
    THEN WaterRecord(timestamps[i], contexts[i], z)
    ELSE WeatherRecord(timestamps[i], z)

\* the dict the loop of op builds for row i, z being what its np.random
\* calls draw: zip(timestamps, zones), zip(timestamps, sources), timestamps
RecordOf(op, i, z) ==
    IF op = "generate_soil_data"
    THEN SoilRecord(timestamps[i], contexts[i], z)
    ELSE IF op = "generate_water_data"
    THEN WaterRecord(timestamps[i], contexts[i], z)
    ELSE WeatherRecord(timestamps[i], z)

\* one turn of the loop of lines 64-88, 126-181 and 209-242
AppendRecord(op, fields, noise) ==
    /\ Run(op)
    /\ pc = "loop"
    /\ Len(records) < Len(timestamps)
    /\ \E z \in Draws(<<"noise", fields>>, noise) :
            /\ Consume(<<"noise", fields>>, z)
            /\ records' = Append(records, RecordOf(op, Len(records) + 1, z))
    /\ UNCHANGED <<tables, call, pc, n_records, timestamps, contexts, df, runs>>

\* lines 90-97 and 183-190: the frame, the missing values, the return
ReturnFrame(op, numeric, missing) ==
    /\ Run(op)
    /\ pc = "loop"
    /\ Len(records) = Len(timestamps)
    /\ \E mask \in Draws(<<"random", missing, n_records>>,
                         MaskDraws(missing, n_records)) :
            LET frame == Frame(records, numeric, mask)
            IN  /\ Consume(<<"random", missing, n_records>>, mask)
                /\ df' = (IF frame.raised = "no" THEN frame.value ELSE df)
                /\ call' = [call EXCEPT !.returned = TRUE] @@ [ret |-> frame]
    /\ runs' = Append(runs, call')
    /\ pc' = "done"
    /\ UNCHANGED <<tables, n_records, timestamps, contexts, records>>

SoilTimestamps == DrawTimestamps("generate_soil_data")

SoilZones == DrawContexts("generate_soil_data", DOMAIN ZONE_PROFILES, ZoneDraws)

SoilZonesRaise == ChoiceRaises("generate_soil_data")

SoilLoop ==
    AppendRecord("generate_soil_data", SoilNoise, NoiseDraws(SoilNoise))

SoilFrame == ReturnFrame("generate_soil_data", SoilNumericColumns, SoilMissingColumns)

WaterTimestamps == DrawTimestamps("generate_water_data")

WaterSources == DrawContexts("generate_water_data", DOMAIN source_factors, SourceDraws)

WaterSourcesRaise == ChoiceRaises("generate_water_data")

WaterLoop ==
    AppendRecord("generate_water_data", WaterNoise, NoiseDraws(WaterNoise))

WaterFrame == ReturnFrame("generate_water_data", WaterNumericColumns, WaterMissingColumns)

\* lines 206-207: n_records evenly spaced hours, no draw
WeatherTimestamps ==
    /\ Run("generate_weather_data")
    /\ pc = "idle"
    /\ n_records' = call.arg
    /\ timestamps' = WeatherTimestampsOf(call.arg)
    /\ pc' = "loop"
    /\ UNCHANGED <<tables, call, contexts, records, df, random, runs>>

WeatherLoop ==
    AppendRecord("generate_weather_data", WeatherNoise, WeatherDraws)

\* line 244: return pd.DataFrame(records), an empty frame for no records
WeatherFrame ==
    /\ Run("generate_weather_data")
    /\ pc = "loop"
    /\ Len(records) = Len(timestamps)
    /\ df' = DataFrame(records, WeatherNumericColumns)
    /\ call' = [call EXCEPT !.returned = TRUE] @@ [ret |-> [raised |-> "no", value |-> df']]
    /\ runs' = Append(runs, call')
    /\ pc' = "done"
    /\ UNCHANGED <<tables, n_records, timestamps, contexts, records, random>>

NextGenerate ==
    \/ SoilTimestamps
    \/ SoilZones
    \/ SoilZonesRaise
    \/ SoilLoop
    \/ SoilFrame
    \/ WaterTimestamps
    \/ WaterSources
    \/ WaterSourcesRaise
    \/ WaterLoop
    \/ WaterFrame
    \/ WeatherTimestamps
    \/ WeatherLoop
    \/ WeatherFrame

SpecGenerate == InitGenerate /\ [][NextGenerate]_vars

\* generate_weather_data(n) for a few records, and the timestamps of line
\* 207 alone for the counts a run of the loop is too long for: the small
\* counts, the counts about a half of the horizon's hours, the last counts
\* with a step of 1 hour and the first with a step of 0
MaxSpacedRecords == 100

SpacedCounts == {8760, 8761, HorizonHours - 1, HorizonHours, HorizonHours + 1}

\* the days of the year, the exponential draws and the uniform draws one
\* turn of the loop is tried on: days before, about and after the monsoon's
\* peak, day 210; uniform draws about 0.3 and 0.7
RainDays == {1, 150, 183, 210, 244, 300}

RainExponentialDraws == {0, 1234, 12000}

RainyDraws == {0, 500, 999} \cup Around(300) \cup Around(700)

InitWeather ==
    /\ InitCall
    /\ \/ \E n \in (0..MaxRecords) \cup InvalidCounts :
            call = Pending("generate_weather_data", n)
       \/ \E n \in (1..MaxSpacedRecords) \cup SpacedCounts :
            call = Pending("weather_timestamps", n)
       \/ \E day \in RainDays, exponential \in RainExponentialDraws, rainy \in RainyDraws :
            call = Pending("weather_record",
                           [ts |-> 24 * (day - 1) + 12,
                            z  |-> WeatherDraw(1234, exponential, rainy, 886, 850)])

\* line 207 on its own
SpaceTimestamps ==
    /\ Run("weather_timestamps")
    /\ Return([raised |-> "no", value |-> WeatherTimestampsOf(call.arg)])

\* lines 210-242 for one timestamp
BuildWeatherRecord ==
    /\ Run("weather_record")
    /\ Return([raised |-> "no", value |-> WeatherRecord(call.arg.ts, call.arg.z)])

NextWeather ==
    \/ WeatherTimestamps
    \/ WeatherLoop
    \/ WeatherFrame
    \/ SpaceTimestamps
    \/ BuildWeatherRecord

SpecWeather == InitWeather /\ [][NextWeather]_vars

-----------------------------------------------------------------------------
(* Seeded runs of generate_soil_data: a caller seeds the generator and     *)
(* calls generate_soil_data(n), then does both again with the same seed    *)
(* and the same n.                                                         *)

MaxSeededRecords == 1

MaxRuns == 2

SeedDraws == {42, 7}

\* np.random.seed(seed); generate_soil_data(n_records): the seeding and the
\* entry of the call
SeededCall ==
    /\ call.returned
    /\ Len(runs) < MaxRuns
    /\ \E seed \in SeedDraws, n \in 0..MaxSeededRecords :
        /\ runs # <<>> => seed = runs[1].seed /\ n = runs[1].arg
        /\ NpRandomSeed("caller", seed)
        /\ call' = [op |-> "generate_soil_data", arg |-> n, returned |-> FALSE,
                    seed |-> seed]
    /\ pc' = "idle"
    /\ n_records' = 0
    /\ timestamps' = <<>>
    /\ contexts' = <<>>
    /\ records' = <<>>
    /\ df' = <<>>
    /\ UNCHANGED <<tables, runs>>

NextSeeded ==
    \/ SeededCall
    \/ SoilTimestamps
    \/ SoilZones
    \/ SoilLoop
    \/ SoilFrame

SpecSeeded == InitSeeded /\ [][NextSeeded]_vars

-----------------------------------------------------------------------------
(* A process that has imported the generators and the dataset builders and *)
(* calls them one after another.                                           *)

MaxCalls == 2

MaxPipelineRecords == 1

Generators == {"generate_soil_data", "generate_water_data", "generate_weather_data"}

\* the entry of a call of a generator
CallGenerator ==
    /\ call.returned
    /\ Len(runs) < MaxCalls
    /\ \E op \in Generators, n \in (0..MaxPipelineRecords) \cup InvalidCounts :
            call' = Pending(op, n)
    /\ pc' = "idle"
    /\ n_records' = 0
    /\ timestamps' = <<>>
    /\ contexts' = <<>>
    /\ records' = <<>>
    /\ df' = <<>>
    /\ UNCHANGED <<tables, random, runs>>

\* a call of a dataset builder: it seeds the global generator at site and
\* draws nothing from it before the merged frame exists; the frame has the
\* weather's temperature_c (the soil frame has soil_temperature_c, so the
\* merge renames nothing), and dropna(subset=["temperature_c_weather"])
\* raises KeyError
CreateDataset(op, site) ==
    /\ call.returned
    /\ Len(runs) < MaxCalls
    /\ NpRandomSeed(site, 42)
    /\ call' = [op |-> op, arg |-> <<>>, returned |-> TRUE, ret |-> [raised |-> "KeyError"]]
    /\ runs' = Append(runs, call')
    /\ UNCHANGED <<tables, locals>>

\* irrigation_optimizer.py, lines 27-74
CreateIrrigationDataset == CreateDataset("create_irrigation_dataset", "irrigation_optimizer.py:45")

\* yield_predictor.py, lines 28-72
CreateYieldDataset == CreateDataset("create_yield_dataset", "yield_predictor.py:48")

NextPipeline ==
    \/ CallGenerator
    \/ CreateIrrigationDataset
    \/ CreateYieldDataset
    \/ NextGenerate

SpecPipeline == InitSeeded /\ [][NextPipeline]_vars

-----------------------------------------------------------------------------
(* Claims about the scoring engine *)

Returned(op) == call.op = op /\ call.returned

\* C1: for every soil reading, whatever the values of its seven fields,
\* generate_soil_health_score returns a value in [0, 100].
C1_ScoreInRange ==
    (Returned("generate_soil_health_score") /\ SoilFields \subseteq DOMAIN call.arg)
        => /\ call.ret.raised = "no"
           /\ U(0) <= call.ret.value
           /\ call.ret.value <= U(100)

\* a reading with every field far off its ideal (nitrogen 200 mg/kg below
\* zero) has been scored
C1_Witness ==
    /\ Returned("generate_soil_health_score")
    /\ SoilFields \subseteq DOMAIN call.arg
    /\ \A f \in SoilFields : ~call.arg[f].nan /\ call.arg[f].val = -U(FieldMax(f))
    /\ call.ret.value \in U(0)..U(100)

\* C2: categorize_health_score is total, with closed lower boundaries:
\* >= 80 Excellent, [60, 80) Good, [40, 60) Fair, < 40 Poor; 100 and 80 are
\* Excellent, 60 Good, 40 Fair, 0 Poor.
C2_Categories ==
    Returned("categorize_health_score") =>
        LET v == call.arg.val
        IN  /\ call.ret \in {"Excellent", "Good", "Fair", "Poor"}
            /\ ~call.arg.nan =>
                /\ (v >= U(80)) <=> (call.ret = "Excellent")
                /\ (U(60) <= v /\ v < U(80)) <=> (call.ret = "Good")
                /\ (U(40) <= v /\ v < U(60)) <=> (call.ret = "Fair")
                /\ (v < U(40)) <=> (call.ret = "Poor")
                /\ v \in {U(100), U(80)} => call.ret = "Excellent"
                /\ v = U(60) => call.ret = "Good"
                /\ v = U(40) => call.ret = "Fair"
                /\ v = U(0) => call.ret = "Poor"

\* a score of exactly 80 has been categorized
C2_Witness ==
    /\ Returned("categorize_health_score")
    /\ call.arg = Num(U(80))
    /\ call.ret = "Excellent"

\* the findings of the returned diagnosis about one nutrient
Findings(nutrient) ==
    {i \in DOMAIN call.ret.deficiencies : call.ret.deficiencies[i].nutrient = nutrient}

\* one nutrient's part of C4: moderate and low are the documented thresholds
NutrientDiagnosed(key, nutrient, low, moderate) ==
    key \in DOMAIN call.arg =>
        LET x == call.arg[key]
        IN  /\ (~x.nan /\ x.val < moderate) <=> (Findings(nutrient) # {})
            /\ Cardinality(Findings(nutrient)) <= 1
            /\ \A i \in Findings(nutrient) :
                /\ call.ret.deficiencies[i].value = x
                /\ call.ret.deficiencies[i].severity =
                       IF x.val < low THEN "Critical" ELSE "Low"

\* C4: in diagnose each of nitrogen, phosphorus and potassium is reported
\* deficient exactly when its value is below its moderate threshold (60, 25,
\* 35), Critical when also below its low threshold (40, 15, 25) and Low
\* otherwise, independently of the other fields; N = 30 is Critical, N = 50 Low.
C4_NutrientSeverity ==
    Returned("diagnose") =>
        /\ NutrientDiagnosed("nitrogen_mg_kg", "Nitrogen", U(40), U(60))
        /\ NutrientDiagnosed("phosphorus_mg_kg", "Phosphorus", U(15), U(25))
        /\ NutrientDiagnosed("potassium_mg_kg", "Potassium", U(25), U(35))
        /\ ("nitrogen_mg_kg" \in DOMAIN call.arg /\ call.arg["nitrogen_mg_kg"] = Num(U(30)))
            => call.ret.deficiencies[1].severity = "Critical"
        /\ ("nitrogen_mg_kg" \in DOMAIN call.arg /\ call.arg["nitrogen_mg_kg"] = Num(U(50)))
            => call.ret.deficiencies[1].severity = "Low"

\* nitrogen exactly at its low threshold, 40, has been diagnosed Low while
\* potassium, below its own, is Critical
C4_Witness ==
    /\ Returned("diagnose")
    /\ DOMAIN call.arg = DiagnoseFields
    /\ call.arg["nitrogen_mg_kg"] = Num(U(40))
    /\ call.arg["potassium_mg_kg"] = Num(U(25) - 1)
    /\ \E i \in Findings("Nitrogen") : call.ret.deficiencies[i].severity = "Low"
    /\ \E i \in Findings("Potassium") : call.ret.deficiencies[i].severity = "Critical"

\* some finding of the returned diagnosis is Critical
AnyCritical ==
    \E i \in DOMAIN call.ret.deficiencies : call.ret.deficiencies[i].severity = "Critical"

\* C5: the overall severity is a union over the findings: "critical" iff at
\* least one is Critical, "moderate" iff there is a finding and none is
\* Critical, "none" iff there is no finding; on a reading with all four
\* fields, "critical" iff N < 40 or P < 15 or K < 25, whatever the others are.
C5_OverallSeverity ==
    Returned("diagnose") =>
        /\ call.ret.severity \in {"critical", "moderate", "none"}
        /\ (call.ret.severity = "critical") <=> AnyCritical
        /\ (call.ret.severity = "moderate") <=> (call.ret.deficiencies # <<>> /\ ~AnyCritical)
        /\ (call.ret.severity = "none") <=> (call.ret.deficiencies = <<>>)
        /\ DOMAIN call.arg = DiagnoseFields =>
            ((call.ret.severity = "critical") <=>
                \/ Lt(call.arg["nitrogen_mg_kg"], U(40))
                \/ Lt(call.arg["phosphorus_mg_kg"], U(15))
                \/ Lt(call.arg["potassium_mg_kg"], U(25)))

\* a reading whose only critical nutrient is potassium, behind a Low
\* nitrogen finding, has been diagnosed critical
C5_Witness ==
    /\ Returned("diagnose")
    /\ Len(call.ret.deficiencies) = 2
    /\ call.ret.deficiencies[1].nutrient = "Nitrogen"
    /\ call.ret.deficiencies[1].severity = "Low"
    /\ call.ret.deficiencies[2].nutrient = "Potassium"
    /\ call.ret.deficiencies[2].severity = "Critical"
    /\ call.ret.severity = "critical"

\* the issues of the returned assessment about one parameter, of one kind
Issues(param, what) ==
    {i \in DOMAIN call.ret.issues :
        call.ret.issues[i].param = param /\ call.ret.issues[i].what = what}

\* one parameter's part of C6
ParamAssessed(param, max) ==
    LET over == param \in DOMAIN call.arg /\ ~call.arg[param].nan /\ call.arg[param].val > max
    IN  Cardinality(Issues(param, "exceeds limit")) = IF over THEN 1 ELSE 0

\* C6: assess_irrigation_suitability returns suitable exactly when its
\* issues list is empty; the list has one entry for each of pH, TDS,
\* chloride, sulfate and hardness strictly above its max (8.5, 2000, 350,
\* 400, 500), one when pH is strictly below 6.0, and no other.
C6_Suitability ==
    Returned("assess_irrigation_suitability") =>
        LET lowPh == "ph" \in DOMAIN call.arg /\ ~call.arg["ph"].nan /\ call.arg["ph"].val < D(60)
        IN  /\ call.ret.suitable <=> (call.ret.issues = <<>>)
            /\ ParamAssessed("ph", D(85))
            /\ ParamAssessed("tds_ppm", U(2000))
            /\ ParamAssessed("chloride_mg_l", U(350))
            /\ ParamAssessed("sulfate_mg_l", U(400))
            /\ ParamAssessed("hardness_mg_l", U(500))
            /\ Cardinality(Issues("ph", "below minimum")) = IF lowPh THEN 1 ELSE 0
            /\ Len(call.ret.issues) =
                   Cardinality(UNION {Issues(q, "exceeds limit") : q \in LimitFields})
                   + Cardinality(Issues("ph", "below minimum"))

\* water with sulfate just above 400 and every other parameter exactly at
\* its limit has been found unsuitable, with the one issue
C6_Witness ==
    /\ Returned("assess_irrigation_suitability")
    /\ DOMAIN call.arg = LimitFields
    /\ call.arg["ph"] = Num(D(85))
    /\ call.arg["tds_ppm"] = Num(U(2000))
    /\ call.arg["chloride_mg_l"] = Num(U(350))
    /\ call.arg["sulfate_mg_l"] = Num(U(400) + 1)
    /\ call.arg["hardness_mg_l"] = Num(U(500))
    /\ ~call.ret.suitable
    /\ Len(call.ret.issues) = 1

\* the letter the documented mapping gives a sum of points
LetterFor(sum) ==
    CASE sum >= 80 -> "A"
      [] sum < 80 /\ sum >= 60 -> "B"
      [] sum < 60 /\ sum >= 40 -> "C"
      [] sum < 40 /\ sum >= 20 -> "D"
      [] sum < 20 -> "F"

\* C3: the water quality grade is the letter for the sum of five
\* contributions (pH, TDS, turbidity, dissolved oxygen, nitrate) of 0, 10 or
\* 20 points each, a multiple of 10 in 0..100, mapped A >= 80, B >= 60,
\* C >= 40, D >= 20, else F; pH 7.0, TDS 300, turbidity 3, DO 7, nitrate 5
\* scores 100, grade A; pH 3.0, TDS 2000, turbidity 50, DO 1, nitrate 100
\* scores 0, grade F.
C3_QualityGrade ==
    Returned("quality_grade") =>
        LET p == call.ret.points
        IN  /\ \A i \in 1..5 : p[i] \in {0, 10, 20}
            /\ call.ret.score = p[1] + p[2] + p[3] + p[4] + p[5]
            /\ call.ret.score \in {10 * i : i \in 0..10}
            /\ call.ret.grade = LetterFor(call.ret.score)
            /\ call.arg = [ph |-> D(70), tds |-> U(300), turbidity |-> U(3),
                           dissolved_o2 |-> U(7), nitrate |-> U(5)]
                => call.ret.score = 100 /\ call.ret.grade = "A"
            /\ call.arg = [ph |-> U(3), tds |-> U(2000), turbidity |-> U(50),
                           dissolved_o2 |-> U(1), nitrate |-> U(100)]
                => call.ret.score = 0 /\ call.ret.grade = "F"

\* a reading scoring exactly 80, the lowest A, has been graded
C3_Witness ==
    /\ Returned("quality_grade")
    /\ call.ret.points = <<20, 20, 20, 20, 0>>
    /\ call.ret.score = 80
    /\ call.ret.grade = "A"

\* the documented field capacity of a soil type
DocumentedCapacity(soil_type) ==
    CASE soil_type = "Loamy" -> 40
      [] soil_type = "Clay" -> 50
      [] soil_type = "Sandy" -> 20
      [] soil_type = "Silt" -> 45
      [] soil_type = "Clay Loam" -> 48
      [] soil_type = "Sandy Loam" -> 28
      [] soil_type = "Peaty" -> 60
      [] OTHER -> 35

C8_Monotone ==
    Returned("irrigation_need_mm") =>
        LET row == call.arg
        IN  /\ \A e \in EtoDraws :
                e >= row.evapotranspiration_est =>
                    IrrigationNeed(row.soil_type, row.moisture_pct, e, row.rainfall_mm)
                        >= call.ret.irrigation_need_mm
            /\ \A r \in RainDraws :
                r >= row.rainfall_mm =>
                    IrrigationNeed(row.soil_type, row.moisture_pct,
                                   row.evapotranspiration_est, r)
                        <= call.ret.irrigation_need_mm

\* a row whose need is strictly inside (0, 50) and that more ETo takes to the
\* clamp at 50 and more rain to the clamp at 0
C8_Witness ==
    /\ Returned("irrigation_need_mm")
    /\ call.ret.irrigation_need_mm > U(0)
    /\ call.ret.irrigation_need_mm < U(50)
    /\ \E e \in EtoDraws :
        /\ e > call.arg.evapotranspiration_est
        /\ IrrigationNeed(call.arg.soil_type, call.arg.moisture_pct, e,
                          call.arg.rainfall_mm) = U(50)
    /\ \E r \in RainDraws :
        /\ r > call.arg.rainfall_mm
        /\ IrrigationNeed(call.arg.soil_type, call.arg.moisture_pct,
                          call.arg.evapotranspiration_est, r) = U(0)

-----------------------------------------------------------------------------
(* The generated tables *)

\* the clamp intervals of lines 79-83 and of lines 139, 142 and 147
SoilClamps ==
    [ph |-> <<U(4), U(9)>>, organic_matter_pct |-> <<D(5), U(12)>>,
     moisture_pct |-> <<U(2), U(80)>>, soil_temperature_c |-> <<U(5), U(45)>>,
     ec_mscm |-> <<D(1), U(5)>>]

WaterClamps ==
    [ph |-> <<D(45), D(95)>>, dissolved_oxygen_mg_l |-> <<U(1), U(14)>>,
     water_temperature_c |-> <<U(8), U(38)>>]

Within(x, interval) == interval[1] <= x /\ x <= interval[2]

\* every row of the frame has its clamped columns in their intervals; a
\* value may be missing only in a column that takes missing values
RowsClamped(frame, clamps, missing) ==
    \A i \in 1..Len(frame) : \A c \in DOMAIN clamps :
        IF frame[i][c].nan THEN c \in missing
        ELSE Within(frame[i][c].val, clamps[c])

\* C9: every row of generate_soil_data and of generate_water_data, whatever
\* the noise, has each clamped field in its interval, in the record the loop
\* builds and, when it is not missing, in the returned table: soil ph in
\* [4.0, 9.0], organic_matter_pct in [0.5, 12.0], moisture_pct in [2, 80],
\* soil_temperature_c in [5, 45], ec_mscm in [0.1, 5.0]; water ph in
\* [4.5, 9.5], dissolved_oxygen_mg_l in [1, 14], water_temperature_c in
\* [8, 38], the water values being the rounded ones.
C9_ClampedFields ==
    /\ call.op = "generate_soil_data" =>
        /\ \A i \in 1..Len(records) : \A c \in DOMAIN SoilClamps :
                Within(records[i][c], SoilClamps[c])
        /\ RowsClamped(df, SoilClamps, SoilMissingColumns)
    /\ call.op = "generate_water_data" =>
        /\ \A i \in 1..Len(records) : \A c \in DOMAIN WaterClamps :
                Within(records[i][c], WaterClamps[c])
        /\ RowsClamped(df, WaterClamps, WaterMissingColumns)

\* a returned water table with a row whose rounded values are at the upper
\* ends of their intervals and a row at the lower ends with its oxygen missing
C9_Witness ==
    /\ Returned("generate_water_data")
    /\ call.ret.raised = "no"
    /\ \E i, j \in 1..Len(df) :
        /\ df[i].ph = Num(D(95))
        /\ df[i].dissolved_oxygen_mg_l = Num(U(14))
        /\ df[i].water_temperature_c = Num(U(38))
        /\ df[j].ph = Num(D(45))
        /\ df[j].water_temperature_c = Num(U(8))
        /\ df[j].dissolved_oxygen_mg_l.nan

\* a <= b for two formatted timestamps: the strings compare as their fields
\* do, most significant first
RECURSIVE TsLeqFrom(_, _, _)
TsLeqFrom(a, b, k) ==
    IF k > Len(a) THEN TRUE
    ELSE IF a[k] # b[k] THEN a[k] < b[k]
    ELSE TsLeqFrom(a, b, k + 1)

TsLeq(a, b) == TsLeqFrom(a, b, 1)

\* C10: in the table generate_soil_data(n) or generate_water_data(n)
\* returns, the timestamp of a row is at most that of the next row, every
\* timestamp is within the 365 * 2 days that start on 2024-01-01, and the
\* rows are the records in the order the loop built them, the injection of
\* missing values having moved none.
C10_TimestampsSorted ==
    ((Returned("generate_soil_data") \/ Returned("generate_water_data"))
      /\ call.ret.raised = "no")
        => /\ Len(df) = call.arg
           /\ \A i \in 1..Len(df) :
                /\ df[i].timestamp = records[i].timestamp
                /\ TsLeq(<<2024, 1, 1, 0, 0, 0>>, df[i].timestamp)
                /\ TsLeq(df[i].timestamp, Strftime(HorizonHours))
                /\ df[i].timestamp # Strftime(HorizonHours)
                /\ i < Len(df) => TsLeq(df[i].timestamp, df[i + 1].timestamp)

\* a returned soil table whose first row is of 2024 and has its nitrogen
\* missing, and whose second row is of 2025
C10_Witness ==
    /\ Returned("generate_soil_data")
    /\ call.ret.raised = "no"
    /\ Len(df) = 2
    /\ df[1].timestamp = <<2024, 7, 1, 11, 0, 0>>
    /\ df[2].timestamp = <<2025, 12, 30, 23, 0, 0>>
    /\ df[1].nitrogen_mg_kg.nan

-----------------------------------------------------------------------------
(* The random generator *)

C12_SeededOnce == seedings = <<"generate_synthetic_data.py:14">>

-----------------------------------------------------------------------------
(* Purity *)

-----------------------------------------------------------------------------
(* Missing fields *)

\* the fields a function reads from its reading
FieldsRead(op) ==
    CASE op = "generate_soil_health_score" -> SoilFields
      [] op = "diagnose" -> DiagnoseFields
      [] op = "assess_irrigation_suitability" -> LimitFields

Raised(ret) == "raised" \in DOMAIN ret /\ ret.raised # "no"

\* C14: generate_soil_health_score, diagnose and assess_irrigation_suitability
\* do not raise when the reading lacks one of the fields they read: each
\* returns a result.
C14_MissingFieldNoError ==
    \A i \in DOMAIN runs :
        (/\ runs[i].op \in {"generate_soil_health_score", "diagnose",
                            "assess_irrigation_suitability"}
         /\ Cardinality(FieldsRead(runs[i].op) \ DOMAIN runs[i].given) = 1)
            => ~Raised(runs[i].ret)

\* the name diagnose reports a nutrient under
NutrientNames ==
    [nitrogen_mg_kg |-> "Nitrogen", phosphorus_mg_kg |-> "Phosphorus",
     potassium_mg_kg |-> "Potassium"]

\* C15: a missing sensor value is unknown, not zero: diagnose reports no
\* deficiency for a nutrient the reading has no value for, and
\* assess_irrigation_suitability reports no issue for a parameter the
\* reading has no value for.
C15_MissingIsUnknown ==
    \A i \in DOMAIN runs :
        /\ runs[i].op = "diagnose" =>
            \A key \in DOMAIN NutrientNames \ DOMAIN runs[i].given :
                \A d \in DOMAIN runs[i].ret.deficiencies :
                    runs[i].ret.deficiencies[d].nutrient # NutrientNames[key]
        /\ runs[i].op = "assess_irrigation_suitability" =>
            \A param \in LimitFields :
                (param \notin DOMAIN runs[i].given \/ runs[i].given[param].nan) =>
                    \A d \in DOMAIN runs[i].ret.issues :
                        runs[i].ret.issues[d].param # param

-----------------------------------------------------------------------------
(* The generated tables: sizes, keys, missing values, ranges *)

\* C16: generate_soil_data(0), generate_water_data(0) and
\* generate_weather_data(0) each return a table of no rows and raise
\* nothing.
C16_ZeroRecordsEmpty ==
    (call.returned /\ call.op \in Generators /\ call.arg = 0)
        => /\ call.ret.raised = "no"
           /\ Len(call.ret.value) = 0

\* C17: every row of the soil table has a zone_id that is one of the 8 keys
\* of ZONE_PROFILES and the soil_type of that zone's profile; every row of
\* the water table has a source_type among Borewell, River, Canal and
\* Rainwater; and the zones and sources drawn for the loop are keys of
\* ZONE_PROFILES and of source_factors, so that no lookup misses.
C17_KnownKeys ==
    /\ Cardinality(DOMAIN ZONE_PROFILES) = 8
    /\ call.op = "generate_soil_data" =>
        /\ \A i \in DOMAIN contexts : contexts[i] \in DOMAIN ZONE_PROFILES
        /\ \A i \in DOMAIN records :
            /\ records[i].zone_id \in DOMAIN ZONE_PROFILES
            /\ records[i].soil_type = ZONE_PROFILES[records[i].zone_id].soil_type
        /\ \A i \in DOMAIN df :
            /\ df[i].zone_id \in DOMAIN ZONE_PROFILES
            /\ df[i].soil_type = ZONE_PROFILES[df[i].zone_id].soil_type
    /\ call.op = "generate_water_data" =>
        /\ \A i \in DOMAIN contexts : contexts[i] \in DOMAIN source_factors
        /\ \A i \in DOMAIN records :
            records[i].source_type \in {"Borewell", "River", "Canal", "Rainwater"}
        /\ \A i \in DOMAIN df :
            df[i].source_type \in {"Borewell", "River", "Canal", "Rainwater"}

\* a returned soil table with a sandy row of Zone_3 after a peaty row of Zone_8
C17_Witness ==
    /\ Returned("generate_soil_data")
    /\ call.ret.raised = "no"
    /\ Len(df) = 2
    /\ df[1].zone_id = "Zone_8"
    /\ df[1].soil_type = "Peaty"
    /\ df[2].zone_id = "Zone_3"
    /\ df[2].soil_type = "Sandy"

\* the columns of a table that are not numeric
Labels(row, numeric) == DOMAIN row \ numeric

\* in every row of df, NaN is found in the columns of missing only, and the
\* columns that are not numeric are those of the record the row was made of
MissingOnlyIn(numeric, missing) ==
    \A i \in DOMAIN df :
        /\ \A c \in numeric \ missing : ~df[i][c].nan
        /\ \A c \in Labels(df[i], numeric) : df[i][c] = records[i][c]

\* C18: in a generated table the missing marker is found only in
\* nitrogen_mg_kg, phosphorus_mg_kg and ec_mscm (soil) and in turbidity_ntu
\* and dissolved_oxygen_mg_l (water): every other column of these tables is
\* present in every row, and the weather table has no missing value.
C18_MissingOnlyInFixedColumns ==
    /\ call.op = "generate_soil_data" =>
        MissingOnlyIn(SoilNumericColumns,
                      {"nitrogen_mg_kg", "phosphorus_mg_kg", "ec_mscm"})
    /\ call.op = "generate_water_data" =>
        MissingOnlyIn(WaterNumericColumns,
                      {"turbidity_ntu", "dissolved_oxygen_mg_l"})
    /\ call.op = "generate_weather_data" =>
        MissingOnlyIn(WeatherNumericColumns, {})

\* a returned soil table of two rows whose first row misses its nitrogen
\* and nothing else
C18_Witness ==
    /\ Returned("generate_soil_data")
    /\ call.ret.raised = "no"
    /\ Len(df) = 2
    /\ df[1].nitrogen_mg_kg.nan
    /\ ~df[2].nitrogen_mg_kg.nan
    /\ ~df[1].potassium_mg_kg.nan
    /\ df[1].zone_id = records[1].zone_id

\* The ranges C20 is read with. Where the code clamps on both sides the
\* range is the code's; elsewhere the lower end is the code's lower bound
\* (or, the code having none, six standard deviations below the least value
\* without noise) and the upper end is six standard deviations of the noise
\* above the greatest value the column has without noise, over all zones,
\* sources, days and hours: no tighter than any clamp of lines 82-87.
SoilRanges ==
    SoilClamps @@
    [nitrogen_mg_kg   |-> <<U(5), U(202)>>,    \* 100 * 1.3 + 6 * 12
     phosphorus_mg_kg |-> <<U(2), U(114)>>,    \* 55 * 1.2 + 6 * 8
     potassium_mg_kg  |-> <<U(5), U(154)>>]    \* 75 * 1.25 + 6 * 10

WaterRanges ==
    WaterClamps @@
    [tds_ppm       |-> <<U(10), U(1320)>>,     \* 600 * (1 + 6 * 0.2)
     turbidity_ntu |-> <<D(1), U(66)>>,        \* 20 * (1.5 + 6 * 0.3)
     hardness_mg_l |-> <<U(10), U(475)>>,      \* 250 * (1 + 6 * 0.15)
     chloride_mg_l |-> <<U(1), U(220)>>,       \* 100 * (1 + 6 * 0.2)
     sulfate_mg_l  |-> <<U(1), U(176)>>,       \* 80 * (1 + 6 * 0.2)
     nitrate_mg_l  |-> <<D(5), U(84)>>]        \* 30 * (1.3 + 6 * 0.25)

WeatherRanges ==
    [temperature_c       |-> <<U(3), U(52)>>,       \* 15 - 6 * 2, 40 + 6 * 2
     humidity_pct        |-> <<U(15), U(100)>>,     \* line 220
     rainfall_mm         |-> <<U(0), D(385)>>,      \* 5.5 + 6 * 5.5
     wind_speed_kmh      |-> <<U(0), D(323)>>,      \* 3 + 8 * (0.886 + 6 * 0.463)
     solar_radiation_wm2 |-> <<U(0), U(360)>>,      \* 300 * 1.2
     pressure_hpa        |-> <<U(983), U(1043)>>,   \* 1013 -+ 6 * 5
     uv_index            |-> <<U(0), U(12)>>]       \* line 241

\* C20: every numeric column of every generated table, soil, water and
\* weather, is clamped to a fixed finite range with a lower and an upper
\* bound, whatever the noise draw: no row the loop builds has a value outside
\* the range of its column, soil nitrogen, phosphorus and potassium, water
\* tds, turbidity, hardness, chloride, sulfate and nitrate, and weather
\* temperature, wind speed, solar radiation and pressure included.
C20_AllColumnsClamped ==
    /\ DOMAIN SoilRanges = SoilNumericColumns
    /\ DOMAIN WaterRanges = WaterNumericColumns
    /\ DOMAIN WeatherRanges = WeatherNumericColumns
    /\ call.op = "generate_soil_data" =>
        \A i \in DOMAIN records : \A c \in SoilNumericColumns :
            Within(records[i][c], SoilRanges[c])
    /\ call.op = "generate_water_data" =>
        \A i \in DOMAIN records : \A c \in WaterNumericColumns :
            Within(records[i][c], WaterRanges[c])
    /\ call.op = "generate_weather_data" =>
        \A i \in DOMAIN records : \A c \in WeatherNumericColumns :
            Within(records[i][c], WeatherRanges[c])

-----------------------------------------------------------------------------
(* Derived physical estimates *)

\* ret is the product of the formula over the given radicand, clamped to
\* [0, 15] and rounded to two decimals
EtoOver(row, radicand, ret) ==
    LET clamped == Clip(EtoProduct(row.temp_c, row.humidity_pct, radicand,
                                   row.wind_speed), 0, 150000)
    IN  Abs(10 * ret - clamped) <= 50

\* C19 as stated: for every input estimate_eto returns
\* 0.0023*(T+17.8)*sqrt(|solar_radiation|+1)*(1-H/100)*(1+0.01*wind) clamped
\* to [0, 15] (to the two decimals it is rounded to), a value of [0, 15].
C19_EtoAsStated ==
    Returned("estimate_eto") =>
        /\ call.ret.raised = "no"
        /\ U(0) <= call.ret.value
        /\ call.ret.value <= U(15)
        /\ EtoOver(call.arg, Abs(call.arg.solar_rad) + 1000, call.ret.value)

\* C19: for every input estimate_eto returns a value of [0, 15], which is
\* 0.0023*(T+17.8)*sqrt(|solar_radiation + 1|)*(1-H/100)*(1+0.01*wind)
\* clamped to [0, 15] and rounded to two decimals; where the solar radiation
\* is not negative that is the formula over sqrt(|solar_radiation| + 1).
C19_EtoClamped ==
    Returned("estimate_eto") =>
        /\ call.ret.raised = "no"
        /\ U(0) <= call.ret.value
        /\ call.ret.value <= U(15)
        /\ EtoOver(call.arg, Abs(call.arg.solar_rad + 1000), call.ret.value)
        /\ call.arg.solar_rad >= 0 =>
            EtoOver(call.arg, Abs(call.arg.solar_rad) + 1000, call.ret.value)

\* an estimate above 0 and below 15 from a negative solar radiation, a
\* humidity above 100 and a temperature below -17.8
C19_Witness ==
    /\ Returned("estimate_eto")
    /\ call.arg.solar_rad < 0
    /\ call.arg.humidity_pct > U(100)
    /\ call.arg.temp_c < -17800
    /\ call.ret.value > U(0)
    /\ call.ret.value < U(15)

-----------------------------------------------------------------------------
(* Invalid record counts *)

\* C21: called with a record count below 0, generate_soil_data,
\* generate_water_data and generate_weather_data each fail with an error
\* before any record is built; none of them returns a table.
C21_InvalidCountFails ==
    \A op \in {"generate_soil_data", "generate_water_data", "generate_weather_data"} :
        (call.op = op /\ call.arg < 0) =>
            /\ records = <<>>
            /\ call.returned => call.ret.raised # "no"

-----------------------------------------------------------------------------
(* The weather table *)

\* the hours ts of n_records rows start at 2024-01-01 00:00, are
\* floor(17520 / n_records) hours apart and end inside the horizon
EvenlySpaced(ts, n) ==
    /\ Len(ts) = n
    /\ Strftime(ts[1]) = <<2024, 1, 1, 0, 0, 0>>
    /\ \A k \in 1..(n - 1) : ts[k + 1] - ts[k] = 17520 \div n
    /\ \A k \in 1..n : 0 <= ts[k] /\ ts[k] < 365 * 2 * 24

\* C22: every row of the weather table, whatever the draws, has uv_index an
\* integer of 0..12, humidity_pct in [15, 100] and rainfall_mm >= 0; and for
\* n_records in 1..17520 the timestamps are floor(17520 / n_records) hours
\* apart from 2024-01-01 00:00 on and inside the horizon of two years.
C22_WeatherRows ==
    /\ call.op = "generate_weather_data" =>
        /\ \A i \in DOMAIN records :
            /\ records[i].uv_index \in {U(k) : k \in 0..12}
            /\ Within(records[i].humidity_pct, <<U(15), U(100)>>)
            /\ records[i].rainfall_mm >= 0
            /\ records[i].timestamp = Strftime((i - 1) * (17520 \div call.arg))
        /\ \A i \in DOMAIN df :
            /\ df[i].uv_index \in {Num(U(k)) : k \in 0..12}
            /\ ~df[i].humidity_pct.nan
            /\ Within(df[i].humidity_pct.val, <<U(15), U(100)>>)
            /\ ~df[i].rainfall_mm.nan
            /\ df[i].rainfall_mm.val >= 0
        /\ (pc # "idle" /\ call.arg >= 1) => EvenlySpaced(timestamps, call.arg)
    /\ (Returned("weather_timestamps") /\ call.arg \in 1..17520) =>
        EvenlySpaced(call.ret.value, call.arg)

\* a returned weather table of two rows a year apart, one of them with the
\* uv index 12, the humidity 100 and rain
C22_Witness ==
    /\ Returned("generate_weather_data")
    /\ Len(df) = 2
    /\ df[2].timestamp = <<2024, 12, 31, 0, 0, 0>>
    /\ \E i \in 1..2 :
        /\ df[i].uv_index = Num(U(12))
        /\ df[i].humidity_pct = Num(U(100))
        /\ df[i].rainfall_mm.val > 0

-----------------------------------------------------------------------------
(* The components of the soil health score *)

\* max(0, 10 - |v - ideal| / sensitivity), v in thousandths, the points in
\* 1/120000 (8, 5 and 6 divide 120)
NutrientPoints(v, ideal, sensitivity) ==
    Max2(0, 10 * 120000 - (Abs(v - U(ideal)) * 120) \div sensitivity)

\* 20 if ph in [6.0, 7.5], else 12 if in [5.5, 8.0], else 5 if in [5.0, 8.5],
\* else 0, ph in thousandths
PhPointsOf(ph) ==
    IF 6000 <= ph /\ ph <= 7500 THEN 20
    ELSE IF 5500 <= ph /\ ph <= 8000 THEN 12
    ELSE IF 5000 <= ph /\ ph <= 8500 THEN 5
    ELSE 0

\* organic matter in [3, 6], moisture in [20, 45] and EC in [0.5, 2.5]
RestIdeal(row) ==
    /\ Within(row["organic_matter_pct"].val, <<U(3), U(6)>>)
    /\ Within(row["moisture_pct"].val, <<U(20), U(45)>>)
    /\ Within(row["ec_mscm"].val, <<D(5), D(25)>>)

-----------------------------------------------------------------------------
(* The diagnosis: pH, recommendations, batch labels *)

\* the names diagnose gives a pH finding
PhFindings == {"pH (Acidic)", "pH (Alkaline)"}

\* C24: diagnose reports "pH (Acidic)" exactly when ph < 5.5 and
\* "pH (Alkaline)" exactly when ph > 8.0, once, never both and neither at
\* 5.5 or at 8.0; a pH finding has the severity Imbalanced, and a diagnosis
\* with no other finding has the overall severity "moderate".
C24_PhImbalance ==
    Returned("diagnose") =>
        LET known  == "ph" \in DOMAIN call.arg /\ ~call.arg["ph"].nan
            acidic == known /\ call.arg["ph"].val < 5500
            alkaline == known /\ call.arg["ph"].val > 8000
            found  == call.ret.deficiencies
        IN  /\ Cardinality(Findings("pH (Acidic)")) = IF acidic THEN 1 ELSE 0
            /\ Cardinality(Findings("pH (Alkaline)")) = IF alkaline THEN 1 ELSE 0
            /\ Findings("pH (Acidic)") = {} \/ Findings("pH (Alkaline)") = {}
            /\ (known /\ call.arg["ph"].val \in {5500, 8000}) =>
                    \A i \in DOMAIN found : found[i].nutrient \notin PhFindings
            /\ \A i \in DOMAIN found :
                    found[i].nutrient \in PhFindings =>
                        /\ found[i].severity = "Imbalanced"
                        /\ found[i].value = call.arg["ph"]
            /\ (found # <<>> /\ \A i \in DOMAIN found : found[i].nutrient \in PhFindings)
                    => call.ret.severity = "moderate"

\* a reading with its nutrients adequate and ph just above 8.0 has been
\* diagnosed alkaline, and nothing else, with the overall severity moderate
C24_Witness ==
    /\ Returned("diagnose")
    /\ DOMAIN call.arg = DiagnoseFields
    /\ call.arg["ph"] = Num(8001)
    /\ Len(call.ret.deficiencies) = 1
    /\ call.ret.deficiencies[1].nutrient = "pH (Alkaline)"
    /\ call.ret.severity = "moderate"

\* the key of AMENDMENT_RECOMMENDATIONS for a finding, and the finding's
\* place in the order N, P, K, pH
KeyOf(nutrient) ==
    CASE nutrient = "Nitrogen"      -> "N_deficient"
      [] nutrient = "Phosphorus"    -> "P_deficient"
      [] nutrient = "Potassium"     -> "K_deficient"
      [] nutrient = "pH (Acidic)"   -> "pH_low"
      [] nutrient = "pH (Alkaline)" -> "pH_high"

RankOf(nutrient) ==
    CASE nutrient = "Nitrogen"   -> 1
      [] nutrient = "Phosphorus" -> 2
      [] nutrient = "Potassium"  -> 3
      [] nutrient \in PhFindings -> 4

\* the entries of the fixed table for the findings from the k-th on
RECURSIVE EntriesFrom(_, _)
EntriesFrom(found, k) ==
    IF k > Len(found) THEN <<>>
    ELSE AmendmentRecommendations0[KeyOf(found[k].nutrient)] \o EntriesFrom(found, k + 1)

\* C25: the recommendations diagnose returns are the entries of the fixed
\* table AMENDMENT_RECOMMENDATIONS for the findings, one list after another
\* in the order N, P, K, pH of the findings, and nothing else; they are
\* empty exactly when there is no finding, and depend on the reading only
\* through which findings there are.
C25_Recommendations ==
    Returned("diagnose") =>
        LET found == call.ret.deficiencies
        IN  /\ \A i, j \in DOMAIN found :
                    i < j => RankOf(found[i].nutrient) < RankOf(found[j].nutrient)
            /\ call.ret.recommendations = EntriesFrom(found, 1)
            /\ (call.ret.recommendations = <<>>) <=> (found = <<>>)

\* nitrogen, phosphorus and potassium deficient and the pH alkaline: twelve
\* recommendations, urea first and then, tenth, gypsum
C25_Witness ==
    /\ Returned("diagnose")
    /\ Len(call.ret.deficiencies) = 4
    /\ Len(call.ret.recommendations) = 12
    /\ call.ret.recommendations[1].amendment = "Urea (46-0-0)"
    /\ call.ret.recommendations[10].amendment = "Gypsum (CaSO4)"

-----------------------------------------------------------------------------
(* Rainfall *)

\* 0.3 + 0.4 * monsoon_factor, in thousandths
RainProbability(day_of_year) == 300 + (400 * MonsoonFactor(day_of_year)) \div 1000

\* C26: the rainfall of a weather row is made in two stages: the
\* exponential draw scaled to the mean 5 * monsoon_factor + 0.5, and then
\* the gate, which makes it 0 whenever the uniform draw is above
\* 0.3 + 0.4 * monsoon_factor, whatever the exponential draw was, and leaves
\* it otherwise; that probability of rain is within [0.3, 0.7], 0.7 on day
\* 210, and does not fall as the day gets nearer to day 210.
C26_RainfallGate ==
    /\ \A d \in 1..366 :
        /\ 300 <= RainProbability(d) /\ RainProbability(d) <= 700
        /\ d < 210 => RainProbability(d) <= RainProbability(d + 1)
        /\ (210 <= d /\ d < 366) => RainProbability(d) >= RainProbability(d + 1)
    /\ RainProbability(210) = 700
    /\ Returned("weather_record") =>
        LET day  == DayOfYear(call.arg.ts)
            mean == 5 * MonsoonFactor(day) + 500
            rain == call.ret.value.rainfall_mm
        IN  IF call.arg.z["rainy"] > RainProbability(day)
            THEN rain = 0
            ELSE rain = RoundTo((mean * call.arg.z["rainfall_mm"]) \div 1000, 100)

\* on day 210 a large exponential draw has been made 0 by a uniform draw
\* just above 0.7
C26_Witness ==
    /\ Returned("weather_record")
    /\ DayOfYear(call.arg.ts) = 210
    /\ call.arg.z["rainfall_mm"] = 12000
    /\ call.arg.z["rainy"] = 701
    /\ call.ret.value.rainfall_mm = 0

-----------------------------------------------------------------------------
(* The quality grade of a water row *)

\* the points the rubric gives the value v of a column
PointsFor(column, v) ==
    CASE column = "ph"                    -> PhPoints(v)
      [] column = "tds_ppm"               -> TdsPoints(v)
      [] column = "turbidity_ntu"         -> TurbidityPoints(v)
      [] column = "dissolved_oxygen_mg_l" -> OxygenPoints(v)
      [] column = "nitrate_mg_l"          -> NitratePoints(v)

\* the points of a stored value: every comparison with NaN is False
StoredPoints(row, column) ==
    IF row[column].nan THEN 0 ELSE PointsFor(column, row[column].val)

\* the grade of the rubric on the stored values of a row
StoredGrade(row) ==
    QualityGrade(StoredPoints(row, "ph") + StoredPoints(row, "tds_ppm")
                 + StoredPoints(row, "turbidity_ntu")
                 + StoredPoints(row, "dissolved_oxygen_mg_l")
                 + StoredPoints(row, "nitrate_mg_l"))

\* C27 as stated: in every row of the table generate_water_data returns,
\* quality_grade is the grade of the rubric on the row's stored ph, tds_ppm,
\* turbidity_ntu, dissolved_oxygen_mg_l and nitrate_mg_l.
C27_GradeOfStoredValues ==
    (Returned("generate_water_data") /\ call.ret.raised = "no") =>
        \A i \in DOMAIN df : df[i].quality_grade = StoredGrade(df[i])

\* half of the step a column is rounded to: round(x, 2) or round(x, 1)
HalfStep(column) == IF column = "tds_ppm" THEN 50 ELSE 5

\* the points the rubric can have given the value a stored one was before
\* it was rounded, or any points where the stored one is missing
PointsBefore(row, column) ==
    IF row[column].nan THEN {0, 10, 20}
    ELSE {PointsFor(column, v) :
            v \in {row[column].val - HalfStep(column), row[column].val,
                   row[column].val + HalfStep(column)}}

\* C27: in every row of the table generate_water_data returns,
\* quality_grade is the grade of the rubric on the row's values as they were
\* before the rounding and before the missing values were put in: on values
\* within half a rounding step of the stored ones, whatever they were where
\* the stored one is missing; and it is the grade of the stored values when
\* none is missing and none is within half a step of a tier's boundary.
C27_GradeOfDrawnValues ==
    (Returned("generate_water_data") /\ call.ret.raised = "no") =>
        \A i \in DOMAIN df :
            /\ \E a \in PointsBefore(df[i], "ph"), b \in PointsBefore(df[i], "tds_ppm"),
                  c \in PointsBefore(df[i], "turbidity_ntu"),
                  d \in PointsBefore(df[i], "dissolved_oxygen_mg_l"),
                  n \in PointsBefore(df[i], "nitrate_mg_l") :
                    df[i].quality_grade = QualityGrade(a + b + c + d + n)
            /\ (\A column \in {"ph", "tds_ppm", "turbidity_ntu", "dissolved_oxygen_mg_l",
                              "nitrate_mg_l"} :
                    Cardinality(PointsBefore(df[i], column)) = 1)
                => df[i].quality_grade = StoredGrade(df[i])

\* a returned water table with a row of grade A whose dissolved oxygen is
\* missing: the stored values alone would give it B
C27_Witness ==
    /\ Returned("generate_water_data")
    /\ call.ret.raised = "no"
    /\ \E i \in DOMAIN df :
        /\ df[i].dissolved_oxygen_mg_l.nan
        /\ df[i].quality_grade = "A"
        /\ StoredGrade(df[i]) = "B"

-----------------------------------------------------------------------------
(* The batch labels against the diagnosis of one reading *)

\* the severities diagnose reports for a nutrient of the reading
Reported(reading, nutrient) ==
    LET found == diagnose(reading).deficiencies
    IN  {found[i].severity : i \in {j \in DOMAIN found : found[j].nutrient = nutrient}}

\* one nutrient's part of C28
LabelsAgree(key, nutrient, deficient, severity) ==
    LET x == call.arg[key]
    IN  (~x.nan /\ x.val > 0) =>
            /\ (severity = "Critical") <=> ("Critical" \in Reported(call.arg, nutrient))
            /\ (severity = "Low") <=> ("Low" \in Reported(call.arg, nutrient))
            /\ (deficient = 1) <=> (severity \in {"Critical", "Low"})

\* C28: for every value v > 0 of a nutrient, the threshold values included,
\* the labels of create_deficiency_labels agree with diagnose on the same
\* reading: X_severity is Critical exactly when diagnose reports Critical for
\* the nutrient, Low exactly when it reports Low, and X_deficient is 1
\* exactly when X_severity is Critical or Low.
C28_LabelsAgreeWithDiagnose ==
    Returned("create_deficiency_labels") =>
        LET labels == call.ret.value
        IN  /\ LabelsAgree("nitrogen_mg_kg", "Nitrogen", labels.N_deficient, labels.N_severity)
            /\ LabelsAgree("phosphorus_mg_kg", "Phosphorus", labels.P_deficient,
                           labels.P_severity)
            /\ LabelsAgree("potassium_mg_kg", "Potassium", labels.K_deficient,
                           labels.K_severity)

-----------------------------------------------------------------------------
(* The floor of the soil health score *)

\* C29: generate_soil_health_score never returns less than 10: whatever the
\* reading's values (NaN included), organic matter contributes at least 5,
\* moisture at least 3 and EC at least 2, so a returned score lies in
\* [10, 100], never in [0, 10), and is never 0.
C29_ScoreFloor ==
    (Returned("generate_soil_health_score") /\ call.ret.raised = "no") =>
        /\ OrganicMatterScore(call.arg) >= 5
        /\ MoistureScore(call.arg) >= 3
        /\ EcScore(call.arg) >= 2
        /\ call.ret.value >= U(10)
        /\ call.ret.value <= U(100)

\* a reading with every field far from its ideal scored exactly 10
C29_Witness ==
    /\ Returned("generate_soil_health_score")
    /\ call.ret.raised = "no"
    /\ \A f \in SoilFields : ~call.arg[f].nan
    /\ NpkScore(call.arg) = 0
    /\ PhScore(call.arg) = 0
    /\ call.ret.value = U(10)

-----------------------------------------------------------------------------
(* The irrigation dataset *)

\* C30: create_irrigation_dataset yields a table with exactly one row per
\* cleaned soil reading whose calendar date has a weather reading, and every
\* row of it has an irrigation_need_mm; so a call of it that has ended has
\* ended with a table, not with an error.
C30_OneRowPerCoveredReading ==
    Returned("create_irrigation_dataset") => call.ret.raised = "no"

=============================================================================
